---------------------------- MODULE Spec2Model ----------------------------
(***************************************************************************)
(* A model of the constructive navigation-mesh library (ten3roberts/       *)
(* constructive): the BSP tree of src/src/tree.rs with the plane           *)
(* operations of src/src/plane.rs, the navmesh builder of                  *)
(* src/src/navmesh/mod.rs and the A* search of src/src/astar.rs.           *)
(*                                                                         *)
(* Numbers.  The code computes in f32.  The model computes exactly, in     *)
(* rationals <<n, d>> (d > 0, lowest terms); a Vec3 is a homogeneous       *)
(* integer quadruple <<x, y, z, w>> standing for (x/w, y/w, z/w), w > 0,   *)
(* in lowest terms, so that equal points are equal values.  Square roots   *)
(* that normalise a vector are taken exactly and are an evaluation error   *)
(* when the result is not rational: the inputs the specifications draw     *)
(* keep every normal rational.                                             *)
(***************************************************************************)
EXTENDS Integers, Sequences, FiniteSets, TLC

---------------------------------------------------------------------------
(* Exact arithmetic standing for f32 and glam::Vec3 *)

\* Local binding, as `let x = v; ..`: F applied to the value of v, which is
\* computed first.
With(v, F(_)) == CHOOSE r \in {F(x) : x \in {v}} : TRUE

Abs(n) == IF n < 0 THEN -n ELSE n

RECURSIVE GCD(_, _)
GCD(a, b) == IF b = 0 THEN a ELSE GCD(b, a % b)

Rat(n, d) ==
    With(GCD(Abs(n), Abs(d)), LAMBDA g :
        IF d < 0 THEN <<(-n) \div g, (-d) \div g>>
        ELSE <<n \div g, d \div g>>)

RInt(n) == <<n, 1>>
RZero == <<0, 1>>
RAdd(a, b) == Rat(a[1] * b[2] + b[1] * a[2], a[2] * b[2])
RSub(a, b) == Rat(a[1] * b[2] - b[1] * a[2], a[2] * b[2])
RMul(a, b) == Rat(a[1] * b[1], a[2] * b[2])
RDiv(a, b) == Rat(a[1] * b[2], a[2] * b[1])
RNeg(a) == <<-a[1], a[2]>>
RAbs(a) == <<Abs(a[1]), a[2]>>
RLt(a, b) == a[1] * b[2] < b[1] * a[2]
RLe(a, b) == a[1] * b[2] <= b[1] * a[2]
RGt(a, b) == RLt(b, a)
RGe(a, b) == RLe(b, a)
RMin(a, b) == IF RLt(b, a) THEN b ELSE a
RMax(a, b) == IF RLt(a, b) THEN b ELSE a

\* The empty choice: evaluating it is an error, which stops a check that
\* leaves the domain the model computes exactly.
Undefined == CHOOSE x \in {} : TRUE

RECURSIVE ISqrtFrom(_, _)
ISqrtFrom(n, r) == IF r * r >= n THEN r ELSE ISqrtFrom(n, r + 1)

\* The exact square root of a perfect square.
ISqrt(n) ==
    With(ISqrtFrom(n, 0), LAMBDA r : IF r * r = n THEN r ELSE Undefined)

VNorm(x, y, z, w) ==
    With(GCD(GCD(Abs(x), Abs(y)), GCD(Abs(z), Abs(w))), LAMBDA g :
        IF w < 0
        THEN <<(-x) \div g, (-y) \div g, (-z) \div g, (-w) \div g>>
        ELSE <<x \div g, y \div g, z \div g, w \div g>>)

vec3(x, y, z) == <<x, y, z, 1>>
VX(v) == Rat(v[1], v[4])
VY(v) == Rat(v[2], v[4])
VZ(v) == Rat(v[3], v[4])
VOfRats(x, y, z) ==
    VNorm(x[1] * y[2] * z[2], y[1] * x[2] * z[2], z[1] * x[2] * y[2],
          x[2] * y[2] * z[2])
VAdd(a, b) ==
    VNorm(a[1] * b[4] + b[1] * a[4], a[2] * b[4] + b[2] * a[4],
          a[3] * b[4] + b[3] * a[4], a[4] * b[4])
VSub(a, b) ==
    VNorm(a[1] * b[4] - b[1] * a[4], a[2] * b[4] - b[2] * a[4],
          a[3] * b[4] - b[3] * a[4], a[4] * b[4])
VNeg(a) == <<-a[1], -a[2], -a[3], a[4]>>
VScale(a, r) == VNorm(a[1] * r[1], a[2] * r[1], a[3] * r[1], a[4] * r[2])
Dot(a, b) == Rat(a[1] * b[1] + a[2] * b[2] + a[3] * b[3], a[4] * b[4])
Cross(a, b) ==
    VNorm(a[2] * b[3] - a[3] * b[2], a[3] * b[1] - a[1] * b[3],
          a[1] * b[2] - a[2] * b[1], a[4] * b[4])
\* glam's Vec3::normalize: v / |v|.
Normalize(v) ==
    With(GCD(GCD(Abs(v[1]), Abs(v[2])), Abs(v[3])), LAMBDA g :
        LET x == v[1] \div g
            y == v[2] \div g
            z == v[3] \div g
        IN  VNorm(x, y, z, ISqrt(x * x + y * y + z * z)))
\* glam's Vec3::lerp: a + (b - a) * t.
Lerp(a, b, t) == VAdd(a, VScale(VSub(b, a), t))
UnitY == vec3(0, 1, 0)

---------------------------------------------------------------------------
(* util.rs, brush.rs: TOLERANCE and Face *)

\* util::TOLERANCE, 1e-5.
TOLERANCE == <<1, 100000>>

Face(p1, p2, p3) == <<p1, p2, p3>>

\* Face::normal
normal(face) ==
    Normalize(Cross(VSub(face[1], face[3]), VSub(face[2], face[3])))

\* Face::points
points(face) == <<face[1], face[2], face[3]>>

\* Face::flip: the face with its winding reversed.
flip(face) == Face(face[3], face[2], face[1])

\* Face::edges: the three directed segments in winding order.
edges(face) ==
    << <<face[1], face[2]>>, <<face[2], face[3]>>, <<face[3], face[1]>> >>

---------------------------------------------------------------------------
(* plane.rs *)

Plane(n, d) == [normal |-> n, distance |-> d]

\* Plane::from_face
from_face(face) ==
    With(normal(face), LAMBDA n : Plane(n, Dot(face[1], n)))

\* Plane::distance_to_point
distance_to_point(plane, point) ==
    RSub(Dot(point, plane.normal), plane.distance)

\* Plane::invert: a new plane; the receiver is left as it is.
PlaneInvert(plane) == Plane(VNeg(plane.normal), RNeg(plane.distance))

\* classify_face with `<` for `<=` in the test for a coplanar face.
classify_face_strict(plane, face) ==
    With(<<distance_to_point(plane, face[1]),
           distance_to_point(plane, face[2]),
           distance_to_point(plane, face[3])>>, LAMBDA d :
        IF \A i \in 1..3 : RLt(RAbs(d[i]), TOLERANCE)
        THEN IF RGt(Dot(normal(face), plane.normal), RZero)
             THEN "CoplanarFront"
             ELSE "CoplanarBack"
        ELSE IF \A i \in 1..3 : RGe(d[i], RNeg(TOLERANCE))
        THEN "Front"
        ELSE IF \A i \in 1..3 : RLe(d[i], TOLERANCE)
        THEN "Back"
        ELSE "Intersect")

\* Plane::classify_face
classify_face(plane, face) ==
    With(<<distance_to_point(plane, face[1]),
           distance_to_point(plane, face[2]),
           distance_to_point(plane, face[3])>>, LAMBDA d :
        IF \A i \in 1..3 : RLe(RAbs(d[i]), TOLERANCE)
        THEN IF RGt(Dot(normal(face), plane.normal), RZero)
             THEN "CoplanarFront"
             ELSE "CoplanarBack"
        ELSE IF \A i \in 1..3 : RGe(d[i], RNeg(TOLERANCE))
        THEN "Front"
        ELSE IF \A i \in 1..3 : RLe(d[i], TOLERANCE)
        THEN "Back"
        ELSE "Intersect")

\* orient leaving every fragment as it was put together.
orient_keep(n, face) == face

\* The closure orient of Plane::split_face: the fragment, wound as the face
\* of normal n.
orient(n, face) ==
    IF RLt(Dot(normal(face), n), RZero)
    THEN Face(face[3], face[2], face[1])
    ELSE face

\* What the vertex loop of Plane::split_face pairs: the vertices of the face
\* in order, each with its distance to the plane.
VertexDistances(plane, face) ==
    << <<face[1], distance_to_point(plane, face[1])>>,
       <<face[2], distance_to_point(plane, face[2])>>,
       <<face[3], distance_to_point(plane, face[3])>> >>

SplitResult(front, back, panic) ==
    [front |-> front, back |-> back, panic |-> panic]

\* The intersection of split_face: from a at distance da toward b at db.
SplitPoint(a, da, b, db) == Lerp(a, b, RDiv(da, RSub(da, db)))

\* Plane::split_face, coplanar_count == 1: one vertex on the plane, the
\* face cut through it.  Either assert_eq! failing is a panic.
SplitThroughVertex(n, c, front, back) ==
    IF Len(back) # 1 \/ Len(front) # 1
    THEN SplitResult(<<>>, <<>>, TRUE)
    ELSE With(SplitPoint(back[1][1], back[1][2], front[1][1], front[1][2]),
              LAMBDA i1 :
             SplitResult(<<orient(n, Face(c, front[1][1], i1))>>,
                         <<orient(n, Face(c, i1, back[1][1]))>>, FALSE))

\* SplitOneFront without its two pushes to back_result.
SplitOneFront_front_only(n, front, back) ==
    With(<<SplitPoint(front[1][1], front[1][2], back[1][1], back[1][2]),
           SplitPoint(front[1][1], front[1][2], back[2][1], back[2][2])>>,
         LAMBDA i :
        SplitResult(<<orient(n, Face(front[1][1], i[1], i[2]))>>, <<>>,
                    FALSE))

\* Plane::split_face, front_count == 1 && back_count == 2.
SplitOneFront(n, front, back) ==
    With(<<SplitPoint(front[1][1], front[1][2], back[1][1], back[1][2]),
           SplitPoint(front[1][1], front[1][2], back[2][1], back[2][2])>>,
         LAMBDA i :
        SplitResult(<<orient(n, Face(front[1][1], i[1], i[2]))>>,
                    <<orient(n, Face(back[1][1], back[2][1], i[1])),
                      orient(n, Face(i[1], back[2][1], i[2]))>>, FALSE))

\* Plane::split_face, front_count == 2 && back_count == 1.
SplitOneBack(n, front, back) ==
    With(<<SplitPoint(back[1][1], back[1][2], front[1][1], front[1][2]),
           SplitPoint(back[1][1], back[1][2], front[2][1], front[2][2])>>,
         LAMBDA i :
        SplitResult(<<orient(n, Face(front[1][1], front[2][1], i[1])),
                      orient(n, Face(i[1], front[2][1], i[2]))>>,
                    <<orient(n, Face(back[1][1], i[1], i[2]))>>, FALSE))

\* Plane::split_face: what it pushes to front_result and to back_result.
\* The vertices with d >= TOLERANCE are front, those with d <= -TOLERANCE
\* back, the others coplanar, each list in vertex order.
split_face(plane, face) ==
    With(VertexDistances(plane, face), LAMBDA pd :
    With(SelectSeq(pd, LAMBDA e : RGe(e[2], TOLERANCE)), LAMBDA front :
    With(SelectSeq(pd, LAMBDA e :
             ~RGe(e[2], TOLERANCE) /\ RLe(e[2], RNeg(TOLERANCE))),
         LAMBDA back :
    With(SelectSeq(pd, LAMBDA e :
             ~RGe(e[2], TOLERANCE) /\ ~RLe(e[2], RNeg(TOLERANCE))),
         LAMBDA coplanar :
    With(normal(face), LAMBDA n :
        IF Len(coplanar) = 1
        THEN SplitThroughVertex(n, coplanar[1][1], front, back)
        ELSE IF Len(front) = 1 /\ Len(back) = 2
        THEN SplitOneFront(n, front, back)
        ELSE IF Len(front) = 2 /\ Len(back) = 1
        THEN SplitOneBack(n, front, back)
        ELSE SplitResult(<<>>, <<>>, FALSE))))))

---------------------------------------------------------------------------
(* tree.rs: the BSP tree.  The slab of nodes is a sequence (nothing is ever *)
(* removed from it); slab key k is index k + 1, and 0 stands for None.      *)

Node(plane, polys, front, back) ==
    [plane |-> plane, polygons |-> polys, front |-> front, back |-> back]

\* BspTree::new
BspTree(root, nodes) == [root |-> root, nodes |-> nodes]

\* The None of Option<usize>.
None == 0

\* The None of Option<BspTree>.
NoTree == [root |-> None, nodes |-> <<>>]

RECURSIVE ConcatRange(_, _, _)
ConcatRange(ss, lo, hi) ==
    IF lo > hi THEN <<>>
    ELSE IF lo = hi THEN ss[lo]
    ELSE LET mid == (lo + hi) \div 2
         IN  ConcatRange(ss, lo, mid) \o ConcatRange(ss, mid + 1, hi)

\* The concatenation of a sequence of sequences.
Concat(ss) == ConcatRange(ss, 1, Len(ss))

Parts(front, back, coplanar) ==
    [front |-> front, back |-> back, coplanar |-> coplanar]

\* One arm of `match plane.classify_face(face) { .. }` in build_subtree,
\* append_subtree and clip_polygons: what the face adds to the front, back
\* and coplanar lists.  build_subtree and append_subtree push both coplanar
\* classes to the coplanar list (clip = FALSE); clip_polygons pushes
\* CoplanarFront to front and CoplanarBack to back.
Place(plane, face, clip) ==
    With(classify_face(plane, face), LAMBDA c :
        CASE c = "Front" -> Parts(<<face>>, <<>>, <<>>)
          [] c = "Back" -> Parts(<<>>, <<face>>, <<>>)
          [] c = "CoplanarFront" ->
               IF clip THEN Parts(<<face>>, <<>>, <<>>)
               ELSE Parts(<<>>, <<>>, <<face>>)
          [] c = "CoplanarBack" ->
               IF clip THEN Parts(<<>>, <<face>>, <<>>)
               ELSE Parts(<<>>, <<>>, <<face>>)
          [] c = "Intersect" ->
               With(split_face(plane, face), LAMBDA sp :
                   Parts(sp.front, sp.back, <<>>)))

\* The loop `for &face in polygons { .. }` around it: the front, back and
\* coplanar lists it fills, in push order.
Partition(plane, polys, clip) ==
    With(<<>> \o [i \in 1..Len(polys) |-> Place(plane, polys[i], clip)],
         LAMBDA parts :
        Parts(Concat([i \in 1..Len(parts) |-> parts[i].front]),
              Concat([i \in 1..Len(parts) |-> parts[i].back]),
              Concat([i \in 1..Len(parts) |-> parts[i].coplanar])))

\* BspTree::build_subtree: the slab after the inserts and the new node's
\* index (None for no polygons).
RECURSIVE build_subtree(_, _)
build_subtree(nodes, polys) ==
    IF polys = <<>>
    THEN [nodes |-> nodes, index |-> None]
    ELSE With(from_face(Head(polys)), LAMBDA plane :
         With(Partition(plane, Tail(polys), FALSE), LAMBDA part :
         With(build_subtree(nodes, part.front), LAMBDA f :
         With(build_subtree(f.nodes, part.back), LAMBDA b :
             [nodes |-> Append(b.nodes,
                               Node(plane, <<Head(polys)>> \o part.coplanar,
                                    f.index, b.index)),
              index |-> Len(b.nodes) + 1]))))

\* BspTree::build
build(polys) ==
    With(build_subtree(<<>>, polys), LAMBDA r :
        IF r.index = None THEN NoTree ELSE BspTree(r.index, r.nodes))

\* `self.nodes[index].front = Self::build_subtree(&mut self.nodes, front)`
\* (side "front") and the same for back: the slab afterwards.
BuildChild(nodes, index, side, polys) ==
    With(build_subtree(nodes, polys), LAMBDA r :
        IF side = "front"
        THEN [r.nodes EXCEPT ![index].front = r.index]
        ELSE [r.nodes EXCEPT ![index].back = r.index])

\* BspTree::append_subtree: the slab afterwards.
RECURSIVE append_subtree(_, _, _)
append_subtree(nodes, index, polys) ==
    With(Partition(nodes[index].plane, polys, FALSE), LAMBDA part :
    With([nodes EXCEPT ![index].polygons = @ \o part.coplanar], LAMBDA n1 :
    With(IF nodes[index].front # None
         THEN append_subtree(n1, nodes[index].front, part.front)
         ELSE BuildChild(n1, index, "front", part.front), LAMBDA n2 :
        IF nodes[index].back # None
        THEN append_subtree(n2, nodes[index].back, part.back)
        ELSE BuildChild(n2, index, "back", part.back))))

\* BspTree::append
append(tree, polys) ==
    BspTree(tree.root, append_subtree(tree.nodes, tree.root, polys))

\* invert_subtree without its `if let Some(back)` arm: a faulty variant the
\* double-invert property tells from the code.
RECURSIVE invert_subtree_front_only(_, _)
invert_subtree_front_only(nodes, index) ==
    With([nodes EXCEPT
            ![index].polygons = [i \in 1..Len(@) |-> flip(@[i])],
            ![index].front = nodes[index].back,
            ![index].back = nodes[index].front], LAMBDA n1 :
        IF n1[index].front # None
        THEN invert_subtree_front_only(n1, n1[index].front)
        ELSE n1)

\* BspTree::invert_subtree: the slab afterwards.  `node.plane.invert();`
\* drops the plane Plane::invert returns, so the node's plane stays.
RECURSIVE invert_subtree(_, _)
invert_subtree(nodes, index) ==
    With([nodes EXCEPT
            ![index].polygons = [i \in 1..Len(@) |-> flip(@[i])],
            ![index].front = nodes[index].back,
            ![index].back = nodes[index].front], LAMBDA n1 :
    With(IF n1[index].front # None
         THEN invert_subtree(n1, n1[index].front)
         ELSE n1, LAMBDA n2 :
        IF n1[index].back # None
        THEN invert_subtree(n2, n1[index].back)
        ELSE n2))

\* BspTree::invert
invert(tree) == BspTree(tree.root, invert_subtree(tree.nodes, tree.root))

\* clip_polygons keeping, at a node without a back child, the polygons
\* behind it: a faulty variant the clip_to property tells from the code.
RECURSIVE clip_polygons_keep_back(_, _, _)
clip_polygons_keep_back(tree, index, polys) ==
    With(Partition(tree.nodes[index].plane, polys, TRUE), LAMBDA part :
        (IF tree.nodes[index].front # None
         THEN clip_polygons_keep_back(tree, tree.nodes[index].front, part.front)
         ELSE part.front)
        \o (IF tree.nodes[index].back # None
            THEN clip_polygons_keep_back(tree, tree.nodes[index].back, part.back)
            ELSE part.back))

\* clip_polygons appending the front results to the back results.
RECURSIVE clip_polygons_back_first(_, _, _)
clip_polygons_back_first(tree, index, polys) ==
    With(Partition(tree.nodes[index].plane, polys, TRUE), LAMBDA part :
        (IF tree.nodes[index].back # None
         THEN clip_polygons_back_first(tree, tree.nodes[index].back,
                                       part.back)
         ELSE <<>>)
        \o (IF tree.nodes[index].front # None
            THEN clip_polygons_back_first(tree, tree.nodes[index].front,
                                          part.front)
            ELSE part.front))

\* BspTree::clip_polygons
RECURSIVE clip_polygons(_, _, _)
clip_polygons(tree, index, polys) ==
    With(Partition(tree.nodes[index].plane, polys, TRUE), LAMBDA part :
        (IF tree.nodes[index].front # None
         THEN clip_polygons(tree, tree.nodes[index].front, part.front)
         ELSE part.front)
        \o (IF tree.nodes[index].back # None
            THEN clip_polygons(tree, tree.nodes[index].back, part.back)
            ELSE <<>>))

\* BspTree::clip_node_to_tree: the slab of self afterwards.
RECURSIVE clip_node_to_tree(_, _, _)
clip_node_to_tree(nodes, index, other) ==
    With([nodes EXCEPT
            ![index].polygons = clip_polygons(other, other.root, @)],
         LAMBDA n1 :
    With(IF nodes[index].front # None
         THEN clip_node_to_tree(n1, nodes[index].front, other)
         ELSE n1, LAMBDA n2 :
        IF nodes[index].back # None
        THEN clip_node_to_tree(n2, nodes[index].back, other)
        ELSE n2))

\* BspTree::clip_to
clip_to(tree, other) ==
    BspTree(tree.root, clip_node_to_tree(tree.nodes, tree.root, other))

\* BspTree::polygons: the polygons of the nodes, in slab order.
polygons(tree) ==
    Concat([i \in 1..Len(tree.nodes) |-> tree.nodes[i].polygons])

\* union without the invert / clip_to / invert of other that removes the
\* faces the two solids share: a faulty variant the union property tells
\* from the code.
union_no_second_clip(tree, other) ==
    With(clip_to(tree, other), LAMBDA a :
        append(a, polygons(clip_to(other, a))))

\* BspTree::union: self afterwards (other is consumed).
union(tree, other) ==
    With(clip_to(tree, other), LAMBDA a :
    With(clip_to(other, a), LAMBDA b1 :
    With(clip_to(invert(b1), a), LAMBDA b2 :
        append(a, polygons(invert(b2))))))

---------------------------------------------------------------------------
(* brush.rs: the brushes.  A brush is its sequence of faces. *)

\* Brush::cube
cube ==
    LET p1 == vec3(-1, -1, -1)
        p2 == vec3(-1, -1, 1)
        p3 == vec3(1, -1, 1)
        p4 == vec3(1, -1, -1)
        p5 == vec3(-1, 1, -1)
        p6 == vec3(-1, 1, 1)
        p7 == vec3(1, 1, 1)
        p8 == vec3(1, 1, -1)
    IN  << Face(p3, p2, p1), Face(p1, p4, p3), Face(p5, p6, p7),
           Face(p7, p8, p5), Face(p6, p5, p1), Face(p1, p2, p6),
           Face(p7, p6, p2), Face(p2, p3, p7), Face(p8, p7, p3),
           Face(p3, p4, p8), Face(p5, p8, p4), Face(p4, p1, p5) >>

\* Brush::plane
plane ==
    LET p1 == vec3(-1, 0, -1)
        p2 == vec3(1, 0, -1)
        p3 == vec3(-1, 0, 1)
        p4 == vec3(1, 0, 1)
    IN  << Face(p3, p2, p1), Face(p3, p4, p2) >>

\* A transform is a scale followed by a translation, [scale, translation]:
\* glam's Mat4::transform_point3 for Mat4::from_scale_rotation_translation
\* with no rotation.
transform_point3(m, p) ==
    VAdd(VNorm(p[1] * m.scale[1], p[2] * m.scale[2], p[3] * m.scale[3], p[4]),
         m.translation)

\* Face::map
FaceMap(face, f(_)) == Face(f(face[1]), f(face[2]), f(face[3]))

\* Brush::transform / Brush::with_transform
with_transform(brush, m) ==
    [i \in 1..Len(brush) |->
        FaceMap(brush[i], LAMBDA p : transform_point3(m, p))]

---------------------------------------------------------------------------
(* span.rs, edge.rs, link.rs *)

\* Span::new
Span(min, max) == [min |-> min, max |-> max]

\* Span::empty
SpanEmpty == Span(RZero, RZero)

\* Span::is_empty
is_empty(span) == RGe(span.min, span.max)

\* intersect with min and max exchanged: the span from the smaller min to
\* the greater max.
intersect_hull(span, other) ==
    IF is_empty(span) \/ is_empty(other) THEN SpanEmpty
    ELSE Span(RMin(span.min, other.min), RMax(span.max, other.max))

\* Span::intersect
intersect(span, other) ==
    IF is_empty(span) \/ is_empty(other) THEN SpanEmpty
    ELSE Span(RMax(span.min, other.min), RMin(span.max, other.max))

\* Edge3D::new
Edge3D(p1, p2) == [p1 |-> p1, p2 |-> p2]

\* LinkKind::Walk and LinkKind::StepUp
Walk(e) == [tag |-> "Walk", edges |-> <<e>>]
StepUp(e1, e2) == [tag |-> "StepUp", edges |-> <<e1, e2>>]

\* NavmeshLink::new
NavmeshLink(from, to, kind) == [from |-> from, to |-> to, kind |-> kind]

\* A reverse that keeps the order of the StepUp edges.
reverse_keep_edges(link) == NavmeshLink(link.to, link.from, link.kind)

\* NavmeshLink::reverse
reverse(link) ==
    NavmeshLink(link.to, link.from,
                IF link.kind.tag = "Walk" THEN Walk(link.kind.edges[1])
                ELSE StepUp(link.kind.edges[2], link.kind.edges[1]))

\* NavmeshLink::source_edge
source_edge(link) == link.kind.edges[1]

\* NavmeshLink::destination_edge
destination_edge(link) ==
    IF link.kind.tag = "Walk" THEN link.kind.edges[1] ELSE link.kind.edges[2]

---------------------------------------------------------------------------
(* edgelist.rs *)

\* PolygonEdge::new
PolygonEdge(polygon, p1, p2) == [p1 |-> p1, p2 |-> p2, polygon |-> polygon]

\* f32::atan2(z, x).  The angle is kept as the direction (x, z) it is the
\* angle of; DiscAngle below turns it into the number the code computes.
atan2(z, x) == <<x, z>>

\* VerticalPlane::new
VerticalPlane(n, distance) ==
    [distance |-> distance, normal |-> n, angle |-> atan2(VZ(n), VX(n))]

\* PolygonEdge::as_vertical_plane.  Normalize is undefined for the zero
\* vector, where the code's assert!(normal.is_normalized()) panics.
as_vertical_plane(edge) ==
    With(Normalize(Cross(VSub(edge.p2, edge.p1), UnitY)), LAMBDA n :
        VerticalPlane(n, Dot(n, edge.p1)))

\* VerticalPlane::tangent
tangent(vp) == Cross(vp.normal, UnitY)

\* VerticalPlane::transform_coplanar_point: a Vec2 as a pair <<x, y>>.
transform_coplanar_point(vp, point) ==
    <<Dot(point, tangent(vp)), Dot(point, UnitY)>>

\* VerticalPlane::coplanar_edge
coplanar_edge(vp, edge) ==
    <<transform_coplanar_point(vp, edge.p1),
      transform_coplanar_point(vp, edge.p2)>>

\* VerticalPlane::coplanar_interval
coplanar_interval(vp, edge) ==
    With(coplanar_edge(vp, edge), LAMBDA e :
        Span(RMin(e[1][1], e[2][1]), RMax(e[1][1], e[2][1])))

\* `if x.abs() < TOLERANCE { 0.0 } else { x }` in canonicalize
Snap(x) == IF RLt(RAbs(x), TOLERANCE) THEN RZero ELSE x

\* canonicalize without the flip: the snapped normal and the distance are
\* kept as they are.
canonicalize_no_flip(vp) ==
    VerticalPlane(VOfRats(Snap(VX(vp.normal)), Snap(VY(vp.normal)),
                          Snap(VZ(vp.normal))), vp.distance)

\* VerticalPlane::canonicalize
canonicalize(vp) ==
    With(<<Snap(VX(vp.normal)), Snap(VY(vp.normal)), Snap(VZ(vp.normal))>>,
         LAMBDA c :
        IF \/ c[1][1] < 0
           \/ c[1][1] = 0 /\ c[2][1] < 0
           \/ c[1][1] = 0 /\ c[2][1] = 0 /\ c[3][1] < 0
        THEN VerticalPlane(VOfRats(RNeg(c[1]), RNeg(c[2]), RNeg(c[3])),
                           RNeg(vp.distance))
        ELSE VerticalPlane(VOfRats(c[1], c[2], c[3]), vp.distance))

\* VerticalPlane::coplanar_to_world
coplanar_to_world(vp, p) ==
    VAdd(VAdd(VScale(tangent(vp), p[1]), VScale(vp.normal, vp.distance)),
         VScale(UnitY, p[2]))

---------------------------------------------------------------------------
(* navmesh/mod.rs *)

\* NavmeshSettings
NavmeshSettings(max_step_height, max_slope_cosine, agent_radius) ==
    [max_step_height |-> max_step_height,
     max_slope_cosine |-> max_slope_cosine,
     agent_radius |-> agent_radius]

\* NavmeshSettings::new
DefaultSettings == NavmeshSettings(<<7, 10>>, <<707, 1000>>, <<1, 5>>)

\* EdgeLinkPlane::new
EdgeLinkPlane(vp) == [plane |-> vp, front |-> <<>>, back |-> <<>>]

\* f32::round: to the nearest integer, halves away from zero.
Round(r) ==
    IF r[1] >= 0 THEN (2 * r[1] + r[2]) \div (2 * r[2])
    ELSE -((2 * (-r[1]) + r[2]) \div (2 * r[2]))

\* `(((angle + TAU) % TAU) * 1024.0).round() as u32` for the angles of the
\* directions with rational unit normals that the scenes below have: the
\* values the f32 expression takes for atan2(z, x).
DiscAngles ==
    { << <<1, 1>>, <<0, 1>>, 0 >>,      << <<-1, 1>>, <<0, 1>>, 3217 >>,
      << <<0, 1>>, <<1, 1>>, 1608 >>,   << <<0, 1>>, <<-1, 1>>, 4825 >>,
      << <<3, 5>>, <<4, 5>>, 950 >>,    << <<4, 5>>, <<3, 5>>, 659 >>,
      << <<3, 5>>, <<-4, 5>>, 5484 >>,  << <<4, 5>>, <<-3, 5>>, 5775 >>,
      << <<-3, 5>>, <<4, 5>>, 2267 >>,  << <<-4, 5>>, <<3, 5>>, 2558 >>,
      << <<-3, 5>>, <<-4, 5>>, 4167 >>, << <<-4, 5>>, <<-3, 5>>, 3876 >> }

DiscAngle(angle) ==
    (CHOOSE e \in DiscAngles : e[1] = angle[1] /\ e[2] = angle[2])[3]

\* The body of the loop `for (p1, p2) in face.edges()` of generate_links:
\* the edge is pushed to the front or the back list of the plane of its
\* key, which is created when the key is new.
AssignEdge(edgeplanes, edge) ==
    With(as_vertical_plane(edge), LAMBDA vp :
    With(canonicalize(vp), LAMBDA cp :
    With(<<DiscAngle(cp.angle), Round(RMul(cp.distance, RInt(256)))>>,
         LAMBDA key :
    With(IF key \in DOMAIN edgeplanes THEN edgeplanes[key]
         ELSE EdgeLinkPlane(cp), LAMBDA entry :
        IF RGt(Dot(vp.normal, cp.normal), RZero)
        THEN (key :> [entry EXCEPT !.front = Append(@, edge)]) @@ edgeplanes
        ELSE (key :> [entry EXCEPT !.back = Append(@, edge)]) @@ edgeplanes
    ))))

\* The edges `for (id, face) in &self.polygons { for (p1, p2) in
\* face.edges() { PolygonEdge::new(id, p1, p2) } }` visits, in order.
PolygonEdges(polys) ==
    Concat([id \in 1..Len(polys) |->
        [e \in 1..3 |->
            PolygonEdge(id, edges(polys[id])[e][1], edges(polys[id])[e][2])]])

\* The first loop of generate_links from edge i on.
RECURSIVE AssignEdges(_, _, _)
AssignEdges(edgeplanes, es, i) ==
    IF i > Len(es) THEN edgeplanes
    ELSE With(AssignEdge(edgeplanes, es[i]), LAMBDA next :
            AssignEdges(next, es, i + 1))

\* The order of the keys of BTreeMap<(u32, i32), _>.
KeyLess(a, b) == a[1] < b[1] \/ (a[1] = b[1] /\ a[2] < b[2])

\* The keys in the order `edgeplanes.values()` visits them.
SortedKeys(keys) ==
    [i \in 1..Cardinality(keys) |->
        CHOOSE k \in keys : Cardinality({j \in keys : KeyLess(j, k)}) = i - 1]

\* m and c of `let m_s = ..; let c_s = ..` for a coplanar edge: <<m, c>>.
Line(e) ==
    With(RDiv(RSub(e[2][2], e[1][2]), RSub(e[2][1], e[1][1])), LAMBDA mm :
        <<mm, RSub(e[1][2], RMul(mm, e[1][1]))>>)

\* Edge3D::new(plane.coplanar_to_world(vec2(min, m * min + c)),
\*             plane.coplanar_to_world(vec2(max, m * max + c)))
WorldEdge(vp, l, span) ==
    Edge3D(coplanar_to_world(vp,
               <<span.min, RAdd(RMul(l[1], span.min), l[2])>>),
           coplanar_to_world(vp,
               <<span.max, RAdd(RMul(l[1], span.max), l[2])>>))

\* The arm `if delta_m.abs() > TOLERANCE` of generate_links: the links it
\* passes to create_link, in order.
SlopedLinks(settings, vp, back_edge, front_edge, s, d, overlap) ==
    With(<<RSub(d[1], s[1]), RSub(d[2], s[2])>>, LAMBDA delta :
    With(<<RDiv(RNeg(delta[2]), delta[1]),
           RDiv(RSub(settings.max_step_height, delta[2]), delta[1]),
           RDiv(RSub(RNeg(settings.max_step_height), delta[2]), delta[1])>>,
         LAMBDA x :
    With(<<intersect(Span(RMin(x[1], x[3]), RMax(x[1], x[3])), overlap),
           intersect(Span(RMin(x[1], x[2]), RMax(x[1], x[2])), overlap)>>,
         LAMBDA step :
        (IF is_empty(step[1]) THEN <<>>
         ELSE <<NavmeshLink(front_edge.polygon, back_edge.polygon,
                    StepUp(WorldEdge(vp, s, step[1]),
                           WorldEdge(vp, d, step[1])))>>)
        \o
        (IF is_empty(step[2]) THEN <<>>
         ELSE <<NavmeshLink(front_edge.polygon, back_edge.polygon,
                    StepUp(WorldEdge(vp, d, step[2]),
                           WorldEdge(vp, s, step[2])))>>))))

\* The arm `else if delta_c.abs() < self.settings.max_step_height`.
LevelLinks(vp, back_edge, front_edge, s, d, overlap) ==
    With(RSub(d[2], s[2]), LAMBDA delta_c :
        IF RGt(delta_c, TOLERANCE)
        THEN <<NavmeshLink(back_edge.polygon, front_edge.polygon,
                   StepUp(WorldEdge(vp, s, overlap),
                          WorldEdge(vp, d, overlap)))>>
        ELSE IF RLt(delta_c, RNeg(TOLERANCE))
        THEN <<NavmeshLink(front_edge.polygon, back_edge.polygon,
                   StepUp(WorldEdge(vp, d, overlap),
                          WorldEdge(vp, s, overlap)))>>
        ELSE <<NavmeshLink(front_edge.polygon, back_edge.polygon,
                   Walk(WorldEdge(vp, s, overlap)))>>)

\* A body of the loop that links parallel edges whatever their distance.
PairLinks_any_height(settings, vp, back_edge, front_edge) ==
    With(intersect(coplanar_interval(vp, back_edge),
                   coplanar_interval(vp, front_edge)), LAMBDA overlap :
        IF is_empty(overlap) THEN <<>>
        ELSE
        With(Line(coplanar_edge(vp, back_edge)), LAMBDA s :
        With(Line(coplanar_edge(vp, front_edge)), LAMBDA d :
            IF RGt(RAbs(RSub(d[1], s[1])), TOLERANCE)
            THEN SlopedLinks(settings, vp, back_edge, front_edge, s, d,
                             overlap)
            ELSE LevelLinks(vp, back_edge, front_edge, s, d, overlap))))

\* The body of `for front_edge in &plane.front` of generate_links: the
\* links it passes to create_link, in order.
PairLinks(settings, vp, back_edge, front_edge) ==
    With(intersect(coplanar_interval(vp, back_edge),
                   coplanar_interval(vp, front_edge)), LAMBDA overlap :
        IF is_empty(overlap) THEN <<>>
        ELSE
        With(Line(coplanar_edge(vp, back_edge)), LAMBDA s :
        With(Line(coplanar_edge(vp, front_edge)), LAMBDA d :
            IF RGt(RAbs(RSub(d[1], s[1])), TOLERANCE)
            THEN SlopedLinks(settings, vp, back_edge, front_edge, s, d,
                             overlap)
            ELSE IF RLt(RAbs(RSub(d[2], s[2])), settings.max_step_height)
            THEN LevelLinks(vp, back_edge, front_edge, s, d, overlap)
            ELSE <<>>)))

\* `for back_edge in &plane.back { for front_edge in &plane.front { .. } }`
PlaneLinks(settings, elp) ==
    Concat([b \in 1..Len(elp.back) |->
        Concat([f \in 1..Len(elp.front) |->
            PairLinks(settings, elp.plane, elp.back[b], elp.front[f])])])

\* `self.polygon_links.entry(key).or_default().push(index)`
PushLink(polygon_links, key, index) ==
    (key :> Append(IF key \in DOMAIN polygon_links THEN polygon_links[key]
                   ELSE <<>>, index)) @@ polygon_links

\* create_link with the index of the reversed link pushed under
\* link.from() as well.
create_link_one_list(this, link) ==
    With(Append(this.links, link), LAMBDA l1 :
    With(PushLink(this.polygon_links, link.from, Len(l1)), LAMBDA pl1 :
    With(Append(l1, reverse(link)), LAMBDA l2 :
        [this EXCEPT !.links = l2,
                     !.polygon_links = PushLink(pl1, link.from, Len(l2))])))

\* The closure create_link of generate_links.  A slab that was cleared
\* hands out its keys in order, so a link's id is its place in the list.
create_link(this, link) ==
    With(Append(this.links, link), LAMBDA l1 :
    With(PushLink(this.polygon_links, link.from, Len(l1)), LAMBDA pl1 :
    With(Append(l1, reverse(link)), LAMBDA l2 :
        [this EXCEPT !.links = l2,
                     !.polygon_links = PushLink(pl1, link.to, Len(l2))])))

\* create_link for the links from the i-th on.
RECURSIVE CreateLinks(_, _, _)
CreateLinks(this, created, i) ==
    IF i > Len(created) THEN this
    ELSE With(create_link(this, created[i]), LAMBDA next :
            CreateLinks(next, created, i + 1))

\* generate_links without `self.polygon_links.clear(); self.links.clear();`
generate_links_no_clear(this) ==
    With(AssignEdges(<<>>, PolygonEdges(this.polygons), 1),
         LAMBDA edgeplanes :
    With(SortedKeys(DOMAIN edgeplanes), LAMBDA keys :
    With(Concat([k \in 1..Len(keys) |->
             PlaneLinks(this.settings, edgeplanes[keys[k]])]),
         LAMBDA created :
        CreateLinks(this, created, 1))))

\* Navmesh::generate_links
generate_links(this) ==
    With(AssignEdges(<<>>, PolygonEdges(this.polygons), 1),
         LAMBDA edgeplanes :
    With(SortedKeys(DOMAIN edgeplanes), LAMBDA keys :
    With(Concat([k \in 1..Len(keys) |->
             PlaneLinks(this.settings, edgeplanes[keys[k]])]),
         LAMBDA created :
        CreateLinks([this EXCEPT !.polygon_links = <<>>, !.links = <<>>],
                    created, 1))))

\* glam's Vec3::signum: 1.0 for a component that is positive or +0.0, -1.0
\* for a negative one (the brushes' zero coordinates are +0.0).
signum(p) ==
    vec3(IF p[1] >= 0 THEN 1 ELSE -1, IF p[2] >= 0 THEN 1 ELSE -1,
         IF p[3] >= 0 THEN 1 ELSE -1)

\* `brush.faces().iter().map(|face| face.map(|p|
\*      transform.transform_point3(p + p.signum() * agent_radius)))`
InflatedFaces(agent_radius, transform, brush) ==
    [i \in 1..Len(brush) |->
        FaceMap(brush[i], LAMBDA p :
            transform_point3(transform,
                             VAdd(p, VScale(signum(p), agent_radius))))]

\* `brushes.into_iter().reduce(|mut brush, other| { brush.union(other);
\* brush })` from the i-th tree on.
RECURSIVE Reduce(_, _, _)
Reduce(acc, ts, i) ==
    IF i > Len(ts) THEN acc
    ELSE With(union(acc, ts[i]), LAMBDA next : Reduce(next, ts, i + 1))

\* A filter that takes a face for walkable by the size of normal . Y.
Walkable_abs(settings, face) ==
    RGt(RAbs(Dot(normal(face), UnitY)), settings.max_slope_cosine)

\* The filter of Navmesh::new and of walkable_polygons.
Walkable(settings, face) ==
    RGt(Dot(normal(face), UnitY), settings.max_slope_cosine)

\* The value of the variable that holds the navmesh before one is made.
NoNavmesh ==
    [polygons |-> <<>>, polygon_links |-> <<>>, links |-> <<>>,
     settings |-> NavmeshSettings(RZero, RZero, RZero)]

\* A Navmesh::new that makes the navmesh of a scaled cube brush when no
\* brush gives a tree.
NavmeshNew_default_brush(settings, bs) ==
    With(SelectSeq(<<>> \o [i \in 1..Len(bs) |->
             build(InflatedFaces(settings.agent_radius,
                                 bs[i].transform, bs[i].brush))],
             LAMBDA t : t # NoTree), LAMBDA ts :
    With(IF ts = <<>>
         THEN polygons(build(with_transform(cube,
                  [scale |-> <<3, 1, 4>>, translation |-> vec3(0, 0, 0)])))
         ELSE polygons(Reduce(ts[1], ts, 2)),
         LAMBDA surface :
        generate_links(
            [polygons |-> SelectSeq(surface,
                              LAMBDA v : Walkable(settings, v)),
             polygon_links |-> <<>>, links |-> <<>>,
             settings |-> settings])))

\* Navmesh::new.  bs, its brushes, is a sequence of [transform, brush].  A
\* slab that is filled by inserts alone hands out its keys in order, so a
\* polygon's id is its place in the list.
NavmeshNew(settings, bs) ==
    With(SelectSeq(<<>> \o [i \in 1..Len(bs) |->
             build(InflatedFaces(settings.agent_radius,
                                 bs[i].transform, bs[i].brush))],
             LAMBDA t : t # NoTree), LAMBDA ts :
    With(IF ts = <<>> THEN <<>> ELSE polygons(Reduce(ts[1], ts, 2)),
         LAMBDA surface :
        generate_links(
            [polygons |-> SelectSeq(surface,
                              LAMBDA v : Walkable(settings, v)),
             polygon_links |-> <<>>, links |-> <<>>,
             settings |-> settings])))

\* Navmesh::walkable_polygons: the (id, face) pairs it yields.
walkable_polygons(this) ==
    SelectSeq(<<>> \o [id \in 1..Len(this.polygons) |->
                  <<id, this.polygons[id]>>],
              LAMBDA v : Walkable(this.settings, v[2]))

---------------------------------------------------------------------------
(* Face queries of the navmesh, edge.rs *)

\* Face::contains_point: the point, projected along the normal, lies on the
\* inner side of the three edges (signed edge cross terms).
contains_point(face, point) ==
    With(normal(face), LAMBDA n :
        \A e \in 1..3 :
            RGe(Dot(Cross(VSub(edges(face)[e][2], edges(face)[e][1]),
                          VSub(point, edges(face)[e][1])), n), RZero))

\* Face::distance_to_plane: the signed distance of the point to the plane
\* of the face.
distance_to_plane(face, point) == Dot(VSub(point, face[1]), normal(face))

\* Navmesh::closest_polygon: the id of the polygon, or None.  min_by_key
\* returns the first of several minima.
closest_polygon(this, point) ==
    With(<<>> \o [id \in 1..Len(this.polygons) |->
             IF contains_point(this.polygons[id], point)
             THEN <<TRUE, distance_to_plane(this.polygons[id], point)>>
             ELSE <<FALSE, RZero>>], LAMBDA c :
        IF \A id \in 1..Len(c) : ~c[id][1] THEN None
        ELSE CHOOSE id \in 1..Len(c) :
                /\ c[id][1]
                /\ \A j \in 1..Len(c) :
                      c[j][1] =>
                          \/ RLt(c[id][2], c[j][2])
                          \/ ~RLt(c[j][2], c[id][2]) /\ id <= j)

\* The None of Option<Vec3>.
NoPoint == <<>>

\* `x < f32::EPSILON` for x >= 0, f32::EPSILON being 2^-23.
BelowEpsilon(x) == x[1] <= (x[2] - 1) \div 8388608

\* `x > TOLERANCE` for a squared distance x.
AboveTolerance(x) == x[1] > x[2] \div TOLERANCE[2]

\* intersect_ray_clipped without the clamp of the edge coordinate.
intersect_ray_unclamped(edge, ray_origin, ray_direction) ==
    With(VSub(edge.p2, edge.p1), LAMBDA edge_dir :
    With(Cross(edge_dir, UnitY), LAMBDA n :
    With(Dot(ray_direction, n), LAMBDA denom :
        IF BelowEpsilon(RAbs(denom)) THEN NoPoint
        ELSE
        With(RDiv(Dot(VSub(edge.p1, ray_origin), n), denom), LAMBDA t :
            IF RLt(t, RZero) THEN NoPoint
            ELSE
            With(VAdd(ray_origin, VScale(ray_direction, t)),
                 LAMBDA intersection :
            With(RDiv(Dot(VSub(intersection, edge.p1), edge_dir),
                      Dot(edge_dir, edge_dir)), LAMBDA edge_coord :
                VAdd(VScale(edge_dir, edge_coord), edge.p1)))))))

\* Edge3D::intersect_ray_clipped
intersect_ray_clipped(edge, ray_origin, ray_direction) ==
    With(VSub(edge.p2, edge.p1), LAMBDA edge_dir :
    With(Cross(edge_dir, UnitY), LAMBDA n :
    With(Dot(ray_direction, n), LAMBDA denom :
        IF BelowEpsilon(RAbs(denom)) THEN NoPoint
        ELSE
        With(RDiv(Dot(VSub(edge.p1, ray_origin), n), denom), LAMBDA t :
            IF RLt(t, RZero) THEN NoPoint
            ELSE
            With(VAdd(ray_origin, VScale(ray_direction, t)),
                 LAMBDA intersection :
            With(RDiv(Dot(VSub(intersection, edge.p1), edge_dir),
                      Dot(edge_dir, edge_dir)), LAMBDA edge_coord :
                VAdd(VScale(edge_dir, RMax(RZero, RMin(RInt(1), edge_coord))),
                     edge.p1)))))))

---------------------------------------------------------------------------
(* astar.rs *)

\* floor(10^k * (value + rem / d)) by long division.
RECURSIVE Scaled(_, _, _, _)
Scaled(value, rem, d, k) ==
    IF k = 0 THEN value
    ELSE Scaled(value * 10 + (rem * 10) \div d, (rem * 10) % d, d, k - 1)

\* The largest r in lo..hi with r * r <= n.
RECURSIVE ISqrtBetween(_, _, _)
ISqrtBetween(n, lo, hi) ==
    IF lo = hi THEN lo
    ELSE With((lo + hi + 1) \div 2, LAMBDA mid :
            IF mid * mid <= n THEN ISqrtBetween(n, mid, hi)
            ELSE ISqrtBetween(n, lo, mid - 1))

\* f32::sqrt, rounded down to a multiple of 1/1000 instead of to the nearest
\* f32.
Sqrt(r) ==
    Rat(ISqrtBetween(Scaled(r[1] \div r[2], r[1] % r[2], r[2], 6), 0, 46340),
        1000)

\* Vec3::distance_squared
distance_squared(a, b) == With(VSub(a, b), LAMBDA v : Dot(v, v))

\* Vec3::distance
distance(a, b) == Sqrt(distance_squared(a, b))

\* The heuristics a caller passes: |a, b| a.distance(b) and |_, _| 0.0.
Heuristic(h, a, b) == IF h = "distance" THEN distance(a, b) ELSE RZero

\* Waypoint::new
Waypoint(target_polygon, edge, point) ==
    [target_polygon |-> target_polygon, edge |-> edge, point |-> point]

\* struct Backtrace
Backtrace(node, point, portal, prev, start_cost, total_cost) ==
    [node |-> node, point |-> point, portal |-> portal, prev |-> prev,
     start_cost |-> start_cost, total_cost |-> total_cost]

\* Backtrace::start
BacktraceStart(node, point, heuristic) ==
    Backtrace(node, point, None, None, RZero, heuristic)

\* A Backtrace::new whose start_cost is the last leg alone.
BacktraceNew_last_leg(edge_index, edge, point, prev, heuristic) ==
    With(distance(point, prev.point), LAMBDA start_cost :
        Backtrace(edge.to, point, edge_index, prev.node, start_cost,
                  RAdd(start_cost, heuristic)))

\* Backtrace::new
BacktraceNew(edge_index, edge, point, prev, heuristic) ==
    With(RAdd(prev.start_cost, distance(point, prev.point)),
         LAMBDA start_cost :
        Backtrace(edge.to, point, edge_index, prev.node, start_cost,
                  RAdd(start_cost, heuristic)))

\* The state of a call of astar: where it is (pc), its locals, what it
\* returned (result "None" or "Some" with path, or "panic" for a failed
\* assert), and the number of passes its call of shorten made.
Search(pc, start_node, end_node, open, backtraces, closed, path, result) ==
    [pc |-> pc, start_node |-> start_node, end_node |-> end_node,
     open |-> open, backtraces |-> backtraces, closed |-> closed,
     path |-> path, result |-> result, passes |-> 0]

\* No call of astar yet.
NoSearch == Search("idle", None, None, <<>>, <<>>, {}, <<>>, "none")

\* astar returns v before the loop.
Returned(start_node, end_node, v) ==
    Search("done", start_node, end_node, <<>>, <<>>, {}, <<>>, v)

\* The lines of astar before the loop, without the `?` of the two
\* closest_polygon calls.
astar_init_unchecked(this, start, end, h) ==
    With(<<closest_polygon(this, start), closest_polygon(this, end)>>,
         LAMBDA n :
    With(BacktraceStart(n[1], start, Heuristic(h, start, end)), LAMBDA b :
        Search("loop", n[1], n[2], <<b>>, n[1] :> b, {}, <<>>, "none")))

\* The lines of astar before the loop: the two closest_polygon calls, each
\* returning None from astar when it finds nothing, and the first push.
astar_init(this, start, end, h) ==
    With(closest_polygon(this, start), LAMBDA start_node :
        IF start_node = None THEN Returned(None, None, "None")
        ELSE
        With(closest_polygon(this, end), LAMBDA end_node :
            IF end_node = None THEN Returned(start_node, None, "None")
            ELSE
            With(BacktraceStart(start_node, start, Heuristic(h, start, end)),
                 LAMBDA b :
                Search("loop", start_node, end_node, <<b>>, start_node :> b,
                       {}, <<>>, "none"))))

\* The sequence in reverse order: Vec::reverse.
Reverse(s) == [i \in 1..Len(s) |-> s[Len(s) + 1 - i]]

\* The loop of contruct_backtrace.
RECURSIVE BacktraceLoop(_, _, _, _)
BacktraceLoop(path, prev, current, backtraces) ==
    With(backtraces[current], LAMBDA node :
    With(IF Len(path) < 2
            \/ AboveTolerance(distance_squared(prev, node.point))
         THEN Append(path, Waypoint(node.node, node.portal, node.point))
         ELSE path, LAMBDA pushed :
        IF node.prev # None
        THEN BacktraceLoop(pushed, node.point, node.prev, backtraces)
        ELSE pushed))

\* contruct_backtrace: the path it leaves.
contruct_backtrace(end, current, backtraces) ==
    Reverse(BacktraceLoop(<<Waypoint(current, None, end)>>, end, current,
                          backtraces))

\* The body of the loop without `shortened += 1`: a replaced point is not
\* counted.
ShortenAt_uncounted(this, path, i, shortened) ==
    IF path[i + 1].edge = None THEN <<path, shortened>>
    ELSE
    With(intersect_ray_clipped(
             destination_edge(this.links[path[i + 1].edge]),
             path[i].point, VSub(path[i + 2].point, path[i].point)),
         LAMBDA p :
        IF p # NoPoint
           /\ AboveTolerance(distance_squared(path[i + 1].point, p))
        THEN <<[path EXCEPT ![i + 1].point = p], shortened>>
        ELSE <<path, shortened>>)

\* The body of `for i in 0..path.len()` of shorten for the window starting
\* at the i-th waypoint: <<path, shortened>> after it.
ShortenAt(this, path, i, shortened) ==
    IF path[i + 1].edge = None THEN <<path, shortened>>
    ELSE
    With(intersect_ray_clipped(
             destination_edge(this.links[path[i + 1].edge]),
             path[i].point, VSub(path[i + 2].point, path[i].point)),
         LAMBDA p :
        IF p # NoPoint
           /\ AboveTolerance(distance_squared(path[i + 1].point, p))
        THEN <<[path EXCEPT ![i + 1].point = p], shortened + 1>>
        ELSE <<path, shortened>>)

\* One pass `for i in 0..path.len()` of shorten from the i-th window on.
RECURSIVE ShortenPass(_, _, _, _)
ShortenPass(this, path, i, shortened) ==
    IF i + 2 > Len(path) THEN <<path, shortened>>
    ELSE With(ShortenAt(this, path, i, shortened), LAMBDA r :
            ShortenPass(this, r[1], i + 1, r[2]))

\* `for _ in 0..100` of shorten.
MaxShortenPasses == 100

\* The passes of shorten from the given one on: <<path, passes made>> when
\* the loop is left.
RECURSIVE ShortenFrom(_, _, _)
ShortenFrom(this, path, pass) ==
    IF pass = MaxShortenPasses THEN <<path, pass>>
    ELSE With(ShortenPass(this, path, 1, 0), LAMBDA r :
            IF r[2] = 0 THEN <<r[1], pass + 1>>
            ELSE ShortenFrom(this, r[1], pass + 1))

\* shorten: the path it leaves.
shorten(this, path) == ShortenFrom(this, path, 0)[1]

\* shorten: the number of passes of `for _ in 0..100` it made.
ShortenPasses(this, path) == ShortenFrom(this, path, 0)[2]

\* Offer that pushes a better backtrace on the heap and leaves the record
\* of the map as it is.
Offer_keep_record(s, b) ==
    IF b.node \in DOMAIN s.backtraces
    THEN IF RGt(s.backtraces[b.node].total_cost, b.total_cost)
         THEN [s EXCEPT !.open = Append(@, b)]
         ELSE s
    ELSE [s EXCEPT !.backtraces = (b.node :> b) @@ @,
                   !.open = Append(@, b)]

\* Offer without the comparison of total_cost: every backtrace is stored
\* and pushed.
Offer_always(s, b) ==
    [s EXCEPT !.backtraces = (b.node :> b) @@ @, !.open = Append(@, b)]

\* `match backtraces.entry(backtrace.node) { .. }` and the push of
\* open.extend: the search after a portal yielded the backtrace b.
Offer(s, b) ==
    IF b.node \in DOMAIN s.backtraces
       /\ ~RGt(s.backtraces[b.node].total_cost, b.total_cost)
    THEN s
    ELSE [s EXCEPT !.backtraces = (b.node :> b) @@ @,
                   !.open = Append(@, b)]

\* The closure of filter_map for one portal of the current node, whose
\* result open.extend pushes.
Portal(this, q, s, current, portal) ==
    With(this.links[portal], LAMBDA link :
        IF link.to = current.node \/ link.to \in s.closed THEN s
        ELSE IF link.from # current.node
        THEN [s EXCEPT !.result = "panic", !.pc = "done"]
        ELSE
        With(intersect_ray_clipped(destination_edge(link), current.point,
                                   VSub(q.end, current.point)), LAMBDA hit :
        With(IF hit # NoPoint THEN hit
             ELSE VScale(VAdd(destination_edge(link).p1,
                              destination_edge(link).p2), <<1, 2>>),
             LAMBDA p :
            Offer(s, BacktraceNew(portal, link, p, current,
                                  Heuristic(q.h, p, q.end))))))

\* An expansion that follows the first portal of the current node only.
Portals_first_only(this, q, s, current, ls, i) ==
    IF ls = <<>> THEN s ELSE Portal(this, q, s, current, ls[1])

\* The portals of the current node from the i-th on, in the order of
\* polygon_links.
RECURSIVE Portals(_, _, _, _, _, _)
Portals(this, q, s, current, ls, i) ==
    IF i > Len(ls) \/ s.pc = "done" THEN s
    ELSE With(Portal(this, q, s, current, ls[i]), LAMBDA next :
            Portals(this, q, next, current, ls, i + 1))

\* `navmesh.polygon_links().get(&current.node).into_iter().flatten()`
LinksOf(this, node) ==
    IF node \in DOMAIN this.polygon_links THEN this.polygon_links[node]
    ELSE <<>>

\* The body of `while let Some(current) = open.pop()` for the element the
\* heap pops, the i-th of open.
astar_iteration(this, q, s, i) ==
    With(s.open[i], LAMBDA current :
    With([s EXCEPT !.open = SubSeq(@, 1, i - 1) \o SubSeq(@, i + 1, Len(@))],
         LAMBDA popped :
        IF current.node \in s.closed THEN popped
        ELSE IF current.node = s.end_node
        THEN [popped EXCEPT
                 !.path = shorten(this,
                              contruct_backtrace(q.end, current.node,
                                                 s.backtraces)),
                 !.passes = ShortenPasses(this,
                                contruct_backtrace(q.end, current.node,
                                                   s.backtraces)),
                 !.result = "Some", !.pc = "done"]
        ELSE
        With(Portals(this, q, popped, current,
                     LinksOf(this, current.node), 1), LAMBDA e :
            IF e.pc = "done" THEN e
            ELSE [e EXCEPT !.closed = @ \cup {current.node}])))

\* What BinaryHeap::pop may return: an element no other element of the
\* heap is ahead of (Ord for Backtrace puts the lowest total_cost first).
CanPop(open, i) ==
    /\ i \in 1..Len(open)
    /\ \A j \in 1..Len(open) : ~RLt(open[j].total_cost, open[i].total_cost)

---------------------------------------------------------------------------
(* The state.  Each specification below drives one part of the library and *)
(* leaves the variables of the other parts as Init set them.               *)

VARIABLES
    trees,      \* the two BspTrees a caller holds (None before build)
    op,         \* the last tree operation: [name, self, other]
    prevop,     \* the tree operation before it
    pre,        \* trees before the last operation
    pre2,       \* trees before the operation before it
    nops,       \* the number of tree operations after the builds
    nav,        \* the Navmesh a caller holds (None before Navmesh::new)
    navop,      \* the last navmesh operation
    walkable,   \* what the last walkable_polygons call returned
    brushes,    \* the brushes Navmesh::new was called with
    query,      \* the arguments of the call of astar: [start, end, h]
    search,     \* the call of astar: its position, locals and result
    spans,      \* the last calls on two Spans: the spans and what came back
    ray,        \* the last call of intersect_ray_clipped and what came back
    cut,        \* the last call of classify_face or split_face on a plane
                \* and a face, and what came back
    clip,       \* the last call of clip_polygons and what came back
    bucket      \* the last edges put in buckets or plane canonicalized

treeVars == <<trees, op, prevop, pre, pre2, nops>>
navVars == <<nav, navop, walkable, brushes>>
astarVars == <<query, search>>
spanVars == <<spans>>
rayVars == <<ray>>
cutVars == <<cut>>
clipVars == <<clip>>
bucketVars == <<bucket>>
callVars == <<spanVars, rayVars, cutVars, clipVars, bucketVars>>
vars == <<treeVars, navVars, astarVars, callVars>>

---------------------------------------------------------------------------
(* Inputs of the navmesh specification *)

\* A brush placed in the world: an item (Mat4, &Brush) of Navmesh::new.
Placed(scale, translation, brush) ==
    [transform |-> [scale |-> scale, translation |-> translation],
     brush |-> brush]

\* A ramp brush: the wedge that rises from y = 0 at x = 0 to y = rise at
\* x = run, for z in [0, width], wound counter-clockwise seen from outside.
Wedge(run, rise, width) ==
    LET a0 == vec3(0, 0, 0)
        a1 == vec3(run, 0, 0)
        a2 == vec3(run, rise, 0)
        b0 == vec3(0, 0, width)
        b1 == vec3(run, 0, width)
        b2 == vec3(run, rise, width)
    IN  << Face(a0, a2, a1), Face(a0, b0, b2), Face(b2, a2, a0),
           Face(a0, a1, b1), Face(b1, b0, a0), Face(a1, a2, b2),
           Face(b2, b1, a1), Face(b0, b1, b2) >>

\* The cube brush with the faces of its +z wall first.
Block == SubSeq(cube, 7, 8) \o SubSeq(cube, 1, 6) \o SubSeq(cube, 9, 12)

Slab(t) == Placed(<<3, 1, 4>>, t, cube)

\* The scenes a navmesh is made of.  The edges of their walkable polygons
\* run along directions (axes and 3-4-5 diagonals) whose unit normals are
\* rational, which Normalize computes exactly.
Scenes ==
    << <<>>,
       << Slab(vec3(0, 0, 0)) >>,
       << Slab(vec3(0, 0, 0)), Slab(vec3(6, 0, 0)) >>,
       << Slab(vec3(0, 0, 0)), Slab(<<12, -1, 0, 2>>) >>,
       << Slab(vec3(0, 0, 0)), Slab(vec3(6, -1, 0)) >>,
       << Slab(vec3(0, 0, 0)), Slab(vec3(26, 0, 0)) >>,
       << Placed(<<4, 1, 3>>, vec3(4, 0, -3), Block),
          Placed(<<1, 1, 1>>, vec3(0, 0, 0), Wedge(8, 6, 6)) >>,
       << Placed(<<3, 1, 4>>, vec3(0, 0, 0), plane) >>,
       << Placed(<<1, 1, 1>>, vec3(0, 0, 0), Wedge(3, 4, 4)) >>,
       << Slab(vec3(0, 0, 0)), Slab(<<12, -1, 0, 2>>), Slab(vec3(12, -1, 0)) >>,
       << Placed(<<1, 1, 1>>, vec3(0, 0, 0), Wedge(4, 3, 3)) >>,
       << Slab(vec3(0, 0, 0)), Slab(vec3(6, -1, 0)), Slab(vec3(9, -1, 8)) >>,
       << Slab(vec3(0, 0, 0)), Slab(vec3(0, 10, 0)) >>,
       << Slab(vec3(0, 0, 0)), Slab(vec3(6, 0, 0)), Slab(vec3(0, 0, 8)),
          Slab(vec3(6, 0, 8)) >> >>

\* The agent radii each scene is inflated by: a radius above zero for the
\* scenes whose brushes stay apart when inflated.
Radii ==
    [s \in 1..Len(Scenes) |->
        IF s \in {1, 2, 6, 8} THEN {RZero, <<1, 5>>} ELSE {RZero}]

AgentRadii == UNION {Radii[s] : s \in 1..Len(Scenes)}
StepHeights == { <<7, 10>>, <<1, 5>>, <<3, 2>>, <<1, 2>> }
SlopeCosines == { <<707, 1000>>, <<1, 2>> }

---------------------------------------------------------------------------
(* Inputs of the tree specification *)

MaxOps == 2

Quad(a, b, c, d) == <<Face(a, b, c), Face(c, d, a)>>

Box(s, t) == with_transform(cube, [scale |-> s, translation |-> t])

\* A closed, non-convex solid: the prism over the L-shaped outline
\* (0,0) (2,0) (2,1) (1,1) (1,2) (0,2) of the XZ plane, for y in [0, 1],
\* wound counter-clockwise seen from outside.
LPrism ==
    LET b(x, z) == vec3(x, 0, z)
        t(x, z) == vec3(x, 1, z)
        wall(x1, z1, x2, z2) ==
            Quad(b(x1, z1), t(x1, z1), t(x2, z2), b(x2, z2))
    IN  Quad(t(0, 0), t(0, 1), t(2, 1), t(2, 0))
        \o Quad(t(0, 1), t(0, 2), t(1, 2), t(1, 1))
        \o Quad(b(0, 0), b(2, 0), b(2, 1), b(0, 1))
        \o Quad(b(0, 1), b(1, 1), b(1, 2), b(0, 2))
        \o wall(0, 0, 2, 0) \o wall(2, 0, 2, 1) \o wall(2, 1, 1, 1)
        \o wall(1, 1, 1, 2) \o wall(1, 2, 0, 2) \o wall(0, 2, 0, 0)

\* The polygon lists a caller builds trees from: closed solids.
Solids == << cube, Box(<<1, 1, 1>>, vec3(1, 0, 0)), LPrism >>

\* Which of them each of the two trees is built from.
BuildChoices == << {1, 2, 3}, {2} >>

OpInit == [name |-> "init", self |-> 0, other |-> 0]

\* No call of intersect_ray_clipped was made yet.
NoRay ==
    [called |-> FALSE, edge |-> Edge3D(vec3(0, 0, 0), vec3(0, 0, 0)),
     origin |-> vec3(0, 0, 0), direction |-> vec3(0, 0, 0),
     result |-> NoPoint]

\* No call of classify_face or split_face was made yet.
NoCut ==
    [op |-> "none", plane |-> Plane(UnitY, RZero),
     face |-> Face(vec3(0, 0, 0), vec3(0, 0, 0), vec3(0, 0, 0)),
     class |-> "none", front |-> <<>>, back |-> <<>>, panic |-> FALSE]

\* No call of clip_polygons was made yet.
\* No edge put in a bucket and no plane canonicalized yet.
NoBucket ==
    [called |-> "none", edges |-> <<>>, edgeplanes |-> <<>>,
     plane |-> None, canonical |-> None]

NoClip == [called |-> FALSE, tree |-> NoTree, input |-> <<>>, output |-> <<>>]

\* No call on a Span was made yet.
NoSpans ==
    [called |-> FALSE, a |-> SpanEmpty, b |-> SpanEmpty,
     a_empty |-> TRUE, b_empty |-> TRUE, ab |-> SpanEmpty, ba |-> SpanEmpty]

\* Nothing is built yet.
Init ==
    /\ trees = <<NoTree, NoTree>>
    /\ op = OpInit
    /\ prevop = OpInit
    /\ pre = <<NoTree, NoTree>>
    /\ pre2 = <<NoTree, NoTree>>
    /\ nops = 0
    /\ nav = NoNavmesh
    /\ navop = "none"
    /\ walkable = <<>>
    /\ brushes = <<>>
    /\ query = [start |-> vec3(0, 0, 0), end |-> vec3(0, 0, 0), h |-> "zero"]
    /\ search = NoSearch
    /\ spans = NoSpans
    /\ ray = NoRay
    /\ cut = NoCut
    /\ clip = NoClip
    /\ bucket = NoBucket

Did(name, t, u, new) ==
    /\ trees' = [trees EXCEPT ![t] = new]
    /\ op' = [name |-> name, self |-> t, other |-> u]
    /\ prevop' = op
    /\ pre' = trees
    /\ pre2' = pre
    /\ UNCHANGED <<navVars, astarVars, callVars>>

\* let tree = BspTree::build(&polygons)
Build(t, s) ==
    /\ trees[t] = NoTree
    /\ t = 1 \/ trees[1] # NoTree
    /\ s \in BuildChoices[t]
    /\ Did("build", t, s, build(Solids[s]))
    /\ UNCHANGED nops

Ready(t) == trees[t] # NoTree /\ nops < MaxOps

\* self.invert()
Invert(t) ==
    /\ Ready(t)
    /\ Did("invert", t, 0, invert(trees[t]))
    /\ nops' = nops + 1

\* self.clip_to(&other)
ClipTo(t, u) ==
    /\ Ready(t) /\ trees[u] # NoTree /\ t # u
    /\ Did("clip_to", t, u, clip_to(trees[t], trees[u]))
    /\ nops' = nops + 1

\* self.union(other.clone())
Union(t, u) ==
    /\ Ready(t) /\ trees[u] # NoTree
    /\ Did("union", t, u, union(trees[t], trees[u]))
    /\ nops' = nops + 1

\* self.append(&other.polygons())
AppendOp(t, u) ==
    /\ Ready(t) /\ trees[u] # NoTree /\ t # u
    /\ Did("append", t, u, append(trees[t], polygons(trees[u])))
    /\ nops' = nops + 1

TreeNext ==
    \/ \E t \in 1..2, s \in 1..Len(Solids) : Build(t, s)
    \/ \E t \in 1..2 : Invert(t)
    \/ \E t \in 1..2, u \in 1..2 : ClipTo(t, u)
    \/ \E t \in 1..2, u \in 1..2 : Union(t, u)
    \/ \E t \in 1..2, u \in 1..2 : AppendOp(t, u)

SpecTree == Init /\ [][TreeNext]_vars


---------------------------------------------------------------------------
(* The navmesh specification *)

\* let navmesh = Navmesh::new(settings, brushes)
NavNew(scene, settings) ==
    /\ navop = "none"
    /\ settings.agent_radius \in Radii[scene]
    /\ nav' = NavmeshNew(settings, Scenes[scene])
    /\ navop' = "new"
    /\ brushes' = Scenes[scene]
    /\ UNCHANGED <<walkable, treeVars, astarVars, callVars>>

\* navmesh.generate_links()
GenerateLinks ==
    /\ navop # "none"
    /\ nav' = generate_links(nav)
    /\ navop' = "generate_links"
    /\ UNCHANGED <<walkable, brushes, treeVars, astarVars, callVars>>

\* navmesh.walkable_polygons().collect()
WalkablePolygons ==
    /\ navop # "none"
    /\ walkable' = walkable_polygons(nav)
    /\ navop' = "walkable_polygons"
    /\ UNCHANGED <<nav, brushes, treeVars, astarVars, callVars>>

NavNext ==
    \/ \E scene \in 1..Len(Scenes), h \in StepHeights, c \in SlopeCosines,
          r \in AgentRadii :
            NavNew(scene, NavmeshSettings(h, c, r))
    \/ GenerateLinks
    \/ WalkablePolygons

SpecNav == Init /\ [][NavNext]_vars

---------------------------------------------------------------------------
(* The A* specification *)

\* The points a caller asks paths between: points inside the polygons of
\* the scenes, off their edges, and one outside all of them.
Points ==
    { vec3(-2, 1, 1), vec3(2, 1, -1), <<8, 2, 1, 2>>, vec3(7, 1, -1),
      vec3(13, 1, 3), vec3(25, 1, 1), vec3(100, 1, 100) }

\* A point 1/400 before the edge x = 3 that the slabs of the scenes share,
\* and the point straight across the edge from it.
NearEdge == <<1199, 400, 200, 400>>
AcrossEdge == <<8, 2, 1, 2>>

\* Points on two slabs of the scene of four slabs that meet in one corner,
\* the slabs lying across that corner from each other.
GridStart == vec3(-2, 1, 10)
GridEnd == vec3(8, 1, -3)

\* Two more points on slabs of that scene lying across the corner from each
\* other, nearer to the corner.
GridNear == vec3(-2, 1, 5)
GridFar == vec3(8, 1, 3)

\* A point on the first slab of the scene of three slabs, whose second slab lies a
\* step lower with the third slab around its corner, and a point on the
\* third slab.
BeforeStep == <<5, 2, 4, 2>>
AroundCorner == <<22, 0, 21, 2>>

\* The (start, end) pairs of the calls.  The point near the edge is paired
\* with the point across it, which keeps the exact coordinates of the
\* crossing points small.
Queries ==
    (Points \X Points)
    \cup { <<NearEdge, AcrossEdge>>, <<AcrossEdge, NearEdge>>,
           <<NearEdge, NearEdge>>, <<BeforeStep, AroundCorner>>,
           <<AroundCorner, BeforeStep>>, <<GridStart, GridEnd>>,
           <<GridNear, GridFar>> }

Heuristics == {"distance", "zero"}

\* The scenes and step heights of the navmeshes paths are asked on.
AstarScenes == {3, 4, 5, 6, 7, 10, 12, 13, 14}

\* astar(&navmesh, start, end, heuristic), up to its loop
AstarCall(start, end, h) ==
    /\ navop # "none"
    /\ search.pc = "idle"
    /\ query' = [start |-> start, end |-> end, h |-> h]
    /\ search' = astar_init(nav, start, end, h)
    /\ UNCHANGED <<treeVars, navVars, callVars>>

\* One iteration of the loop of astar
AstarIteration ==
    /\ search.pc = "loop"
    /\ \E i \in 1..Len(search.open) :
          /\ CanPop(search.open, i)
          /\ search' = astar_iteration(nav, query, search, i)
    /\ UNCHANGED <<query, treeVars, navVars, callVars>>

\* open.pop() returns None: the loop ends and astar returns None
AstarExhausted ==
    /\ search.pc = "loop"
    /\ search.open = <<>>
    /\ search' = [search EXCEPT !.pc = "done", !.result = "None"]
    /\ UNCHANGED <<query, treeVars, navVars, callVars>>

AstarNext ==
    \/ \E scene \in AstarScenes, h \in StepHeights :
          NavNew(scene, NavmeshSettings(h, <<707, 1000>>, RZero))
    \/ \E q \in Queries, h \in Heuristics : AstarCall(q[1], q[2], h)
    \/ AstarIteration
    \/ AstarExhausted

SpecAstar == Init /\ [][AstarNext]_vars

\* WF_vars(AstarIteration) with its ENABLED written out: an iteration can
\* be taken exactly when the call is in its loop with a heap that is not
\* empty, and it takes an element off the heap.
IterationFair ==
    \/ []<>(~(search.pc = "loop" /\ search.open # <<>>))
    \/ []<><<AstarIteration>>_vars

\* A call of astar runs on: its loop is not left waiting forever.
SpecAstarLive ==
    Init /\ [][AstarNext]_vars /\ IterationFair /\ WF_vars(AstarExhausted)

---------------------------------------------------------------------------
(* The span specification *)

\* The values a caller builds spans from.
SpanBounds == { <<-1, 1>>, RZero, <<1, 2>>, <<1, 1>>, <<2, 1>> }

\* Span::new(min, max) for any two of them, in either order.
Spans == { Span(lo, hi) : lo \in SpanBounds, hi \in SpanBounds }

\* a.is_empty(), b.is_empty(), a.intersect(b) and b.intersect(a)
SpanIntersect(a, b) ==
    /\ spans' = [called |-> TRUE, a |-> a, b |-> b,
                 a_empty |-> is_empty(a), b_empty |-> is_empty(b),
                 ab |-> intersect(a, b), ba |-> intersect(b, a)]
    /\ UNCHANGED <<treeVars, navVars, astarVars, rayVars, cutVars, clipVars,
                   bucketVars>>

SpanNext == \E a \in Spans, b \in Spans : SpanIntersect(a, b)

SpecSpan == Init /\ [][SpanNext]_vars

---------------------------------------------------------------------------
(* The ray specification *)

\* The edges a caller passes: level, rising, turned, upright and of no
\* length.
RayEdges ==
    { Edge3D(p1, p2) :
        p1 \in { vec3(0, 0, 0), vec3(1, 1, 0) },
        p2 \in { vec3(2, 0, 0), vec3(2, 1, 2), vec3(0, 0, 0), vec3(0, 2, 0) } }

\* The origins of the rays: before, above, beside and on the edges.
RayOrigins ==
    { vec3(1, 0, -1), vec3(1, 2, 1), vec3(3, 0, -1), vec3(1, 0, 0),
      <<1, 0, 3, 2>> }

\* The directions of the rays; they need not be of length one.
RayDirections ==
    { vec3(0, 0, 1), vec3(0, 0, -1), vec3(1, 0, 0), vec3(1, 0, 1),
      vec3(-3, 1, 1), vec3(1, 2, 3), vec3(0, 1, 0), vec3(0, 0, 0) }

\* edge.intersect_ray_clipped(ray_origin, ray_direction)
IntersectRay(edge, ray_origin, ray_direction) ==
    /\ ray' = [called |-> TRUE, edge |-> edge, origin |-> ray_origin,
               direction |-> ray_direction,
               result |->
                   intersect_ray_clipped(edge, ray_origin, ray_direction)]
    /\ UNCHANGED <<treeVars, navVars, astarVars, spanVars, cutVars, clipVars,
                   bucketVars>>

RayNext ==
    \E edge \in RayEdges, o \in RayOrigins, d \in RayDirections :
        IntersectRay(edge, o, d)

SpecRay == Init /\ [][RayNext]_vars

---------------------------------------------------------------------------
(* The face-against-plane specification *)

\* The heights the vertices of the faces are put at, in fifths.
CutHeights == {-1, 0, 1}

\* The point (x, y / 5, z).
AtHeight(x, y, z) == VNorm(5 * x, y, 5 * z, 5)

\* Upright faces, with their three vertices at any of the heights (the
\* triples on one line left out), and level faces at the heights 0 and
\* 1/5, wound both ways.
CutFaces ==
    { Face(AtHeight(0, y[1], 0), AtHeight(2, y[2], 0), AtHeight(1, y[3], 0)) :
        y \in { h \in CutHeights \X CutHeights \X CutHeights :
                  2 * h[3] # h[1] + h[2] } }
    \cup { Face(AtHeight(0, y, 0), AtHeight(0, y, 1), AtHeight(1, y, 0)) :
             y \in {0, 1} }
    \cup { Face(AtHeight(1, y, 0), AtHeight(0, y, 1), AtHeight(0, y, 0)) :
             y \in {0, 1} }

\* Level planes facing up and down: through the height 0, at TOLERANCE and
\* at twice TOLERANCE on either side of it, and halfway to the height 1/5.
CutPlanes ==
    { Plane(n, d) :
        n \in { UnitY, VNeg(UnitY) },
        d \in { RZero, TOLERANCE, RNeg(TOLERANCE),
                <<2, TOLERANCE[2]>>, <<-2, TOLERANCE[2]>>, <<1, 10>> } }

\* Of these, the planes through a vertex height and halfway between two.
SplitPlanes == { P \in CutPlanes : P.distance \in { RZero, <<1, 10>> } }

\* plane.classify_face(face)
ClassifyFace(P, F) ==
    /\ cut' = [op |-> "classify", plane |-> P, face |-> F,
               class |-> classify_face(P, F),
               front |-> <<>>, back |-> <<>>, panic |-> FALSE]
    /\ UNCHANGED <<treeVars, navVars, astarVars, spanVars, rayVars, clipVars,
                   bucketVars>>

\* match plane.classify_face(face) { .. }, then
\* plane.split_face(face, &mut front, &mut back) with front and back empty
SplitFace(P, F) ==
    /\ cut' = With(split_face(P, F), LAMBDA sp :
                  [op |-> "split", plane |-> P, face |-> F,
                   class |-> classify_face(P, F),
                   front |-> sp.front, back |-> sp.back, panic |-> sp.panic])
    /\ UNCHANGED <<treeVars, navVars, astarVars, spanVars, rayVars, clipVars,
                   bucketVars>>

CutNext ==
    \/ \E P \in CutPlanes, F \in CutFaces : ClassifyFace(P, F)
    \/ \E P \in SplitPlanes, F \in CutFaces : SplitFace(P, F)

SpecCut == Init /\ [][CutNext]_vars

---------------------------------------------------------------------------
(* The clipping specification *)

\* The trees polygons are clipped to: those of the solids, and the same
\* trees inverted.
ClipTrees ==
    { build(Solids[s]) : s \in 1..Len(Solids) }
    \cup { invert(build(Solids[s])) : s \in 1..Len(Solids) }

\* The polygon lists that are clipped: the cube moved about, so that it
\* lies apart from, against, across and within the solids.
ClipInputs ==
    { Box(<<1, 1, 1>>, vec3(dx, dy, dz)) :
        dx \in {-2, -1, 0, 1, 2}, dy \in {0, 1}, dz \in {0, 1} }

\* tree.clip_polygons(tree.root, &polygons), as clip_node_to_tree calls it
ClipPolygons(tree, polys) ==
    /\ clip' = [called |-> TRUE, tree |-> tree, input |-> polys,
                output |-> clip_polygons(tree, tree.root, polys)]
    /\ UNCHANGED <<treeVars, navVars, astarVars, spanVars, rayVars, cutVars,
                   bucketVars>>

ClipNext ==
    \E tree \in ClipTrees, polys \in ClipInputs : ClipPolygons(tree, polys)

SpecClip == Init /\ [][ClipNext]_vars

---------------------------------------------------------------------------
(* The bucket specification *)

\* The horizontal directions of the edges: along the axes and the 3-4-5
\* diagonals, whose unit normals are rational.
BucketDirections ==
    { <<1, 0>>, <<-1, 0>>, <<0, 1>>, <<0, -1>>,
      <<3, 4>>, <<4, 3>>, <<3, -4>>, <<4, -3>>,
      <<-3, 4>>, <<-4, 3>>, <<-3, -4>>, <<-4, -3>> }

\* The first points of the edges.
BucketOrigins == { vec3(0, 0, 0), vec3(1, 2, 3), vec3(-3, 0, 4) }

\* The normals and distances of the planes canonicalize is called on
\* directly: unit normals, and normals with a component below TOLERANCE.
BucketNormals ==
    { VOfRats(<<x, 200000>>, RZero, <<z, 1>>) : x \in {-1, 0, 1},
                                                 z \in {-1, 1} }
    \cup { VOfRats(<<x, 1>>, RZero, <<z, 200000>>) : x \in {-1, 1},
                                                       z \in {-1, 0, 1} }
    \cup { VOfRats(<<x, 5>>, RZero, <<z, 5>>) :
              x \in {-4, -3, 3, 4}, z \in {-4, -3, 3, 4} }

BucketDistances == { <<-3, 2>>, RZero, <<2, 1>> }

\* The first loop of generate_links on a polygon edge from p1 to p2 and
\* then on the edge from p2 to p1, from an empty map.
AssignPair(p1, p2) ==
    /\ bucket' =
          [called |-> "assign",
           edges |-> <<PolygonEdge(1, p1, p2), PolygonEdge(2, p2, p1)>>,
           edgeplanes |->
               AssignEdges(<<>>, <<PolygonEdge(1, p1, p2),
                                   PolygonEdge(2, p2, p1)>>, 1),
           plane |-> None, canonical |-> None]
    /\ UNCHANGED <<treeVars, navVars, astarVars, spanVars, rayVars, cutVars,
                   clipVars>>

\* VerticalPlane::new(n, d).canonicalize()
Canonicalize(n, d) ==
    /\ bucket' =
          [called |-> "canonicalize", edges |-> <<>>, edgeplanes |-> <<>>,
           plane |-> VerticalPlane(n, d),
           canonical |-> canonicalize(VerticalPlane(n, d))]
    /\ UNCHANGED <<treeVars, navVars, astarVars, spanVars, rayVars, cutVars,
                   clipVars>>

BucketNext ==
    \/ \E p1 \in BucketOrigins, d \in BucketDirections, len \in {1, 2},
          dy \in {0, 1} :
          AssignPair(p1, VAdd(p1, vec3(len * d[1], dy, len * d[2])))
    \/ \E n \in BucketNormals, d \in BucketDistances : Canonicalize(n, d)

SpecBucket == Init /\ [][BucketNext]_vars

---------------------------------------------------------------------------
(* Geometry the claims about the tree are stated with *)

\* Twice the area of a face.
area2(f) == Dot(Cross(VSub(f[1], f[3]), VSub(f[2], f[3])), normal(f))

\* The sum of area2 over ps[lo..hi], halving the range.
RECURSIVE SumArea2(_, _, _)
SumArea2(ps, lo, hi) ==
    IF lo > hi THEN RZero
    ELSE IF lo = hi THEN area2(ps[lo])
    ELSE RAdd(SumArea2(ps, lo, (lo + hi) \div 2),
              SumArea2(ps, (lo + hi) \div 2 + 1, hi))

\* Which side of the directed line a -> b, seen against the normal n, the
\* point p lies on: positive to the left (inside a face wound a -> b).
EdgeSide(a, b, n, p) == Dot(Cross(VSub(b, a), VSub(p, a)), n)

\* p lies in the closed triangle f (p is taken to lie in f's plane).
InFace(f, p) ==
    LET n == normal(f)
    IN  \A e \in 1..3 : RGe(EdgeSide(edges(f)[e][1], edges(f)[e][2], n, p), RZero)

\* f is a piece of g: in g's plane, wound as g, within g.
FragmentOf(f, g) ==
    /\ from_face(f) = from_face(g)
    /\ \A v \in 1..3 : InFace(g, f[v])

\* An edge of f has all of g on its outer side.
SeparatedBy(f, g) ==
    LET n == normal(f)
    IN  \E e \in 1..3 : \A v \in 1..3 :
            RLe(EdgeSide(edges(f)[e][1], edges(f)[e][2], n, g[v]), RZero)

\* f and g face the same way in one plane and share interior points.
Overlap(f, g) ==
    /\ from_face(f) = from_face(g)
    /\ ~SeparatedBy(f, g)
    /\ ~SeparatedBy(g, f)

\* The polygons P cover exactly what the polygons Q cover, Q covering
\* nothing twice: every face of P is a piece of a face of Q, no two faces
\* of P overlap, and the areas agree.
SameSurface(P, Q) ==
    /\ \A i \in 1..Len(P) : \E j \in 1..Len(Q) : FragmentOf(P[i], Q[j])
    /\ \A i \in 1..Len(P) : \A j \in (i + 1)..Len(P) : ~Overlap(P[i], P[j])
    /\ SumArea2(P, 1, Len(P)) = SumArea2(Q, 1, Len(Q))

\* All polygons of the subtree under a node (none under None).
RECURSIVE SubtreePolygons(_, _)
SubtreePolygons(nodes, index) ==
    IF index = None THEN <<>>
    ELSE nodes[index].polygons
         \o SubtreePolygons(nodes, nodes[index].front)
         \o SubtreePolygons(nodes, nodes[index].back)

\* Walking the face down the tree by its class at each plane, it leaves
\* the tree on the front side of a node without a front child.
RECURSIVE ReachesFrontLeaf(_, _, _)
ReachesFrontLeaf(tree, index, face) ==
    LET node == tree.nodes[index]
        c == classify_face(node.plane, face)
    IN  CASE c \in {"Front", "CoplanarFront"} ->
               node.front = None \/ ReachesFrontLeaf(tree, node.front, face)
          [] c \in {"Back", "CoplanarBack"} ->
               node.back # None /\ ReachesFrontLeaf(tree, node.back, face)
          [] OTHER -> FALSE

Built(t) == trees[t] # NoTree

---------------------------------------------------------------------------
(* Claims about the BSP tree *)

\* C2: invert flips every polygon of every node, replaces the node's plane
\* by its inverse (normal and distance negated) and swaps the node's front
\* and back children.
C2_InvertFlipsNegatesSwaps ==
    op.name = "invert" =>
        LET new == trees[op.self].nodes
            old == pre[op.self].nodes
        IN  /\ Len(new) = Len(old)
            /\ \A i \in 1..Len(old) :
                 /\ new[i].polygons =
                        [k \in 1..Len(old[i].polygons) |-> flip(old[i].polygons[k])]
                 /\ new[i].plane = PlaneInvert(old[i].plane)
                 /\ new[i].front = old[i].back
                 /\ new[i].back = old[i].front

\* C3: in every tree, after any sequence of operations, every polygon of a
\* node lies within TOLERANCE of the node's plane, every polygon under its
\* front child has all vertices at signed distance >= -TOLERANCE and every
\* polygon under its back child at signed distance <= TOLERANCE.
NodeInvariant(nodes, i) ==
    LET node == nodes[i]
        d(f, v) == distance_to_point(node.plane, f[v])
        own == node.polygons
        fr == SubtreePolygons(nodes, node.front)
        bk == SubtreePolygons(nodes, node.back)
    IN  /\ \A k \in 1..Len(own) : \A v \in 1..3 :
             RLe(RAbs(d(own[k], v)), TOLERANCE)
        /\ \A k \in 1..Len(fr) : \A v \in 1..3 :
             RGe(d(fr[k], v), RNeg(TOLERANCE))
        /\ \A k \in 1..Len(bk) : \A v \in 1..3 :
             RLe(d(bk[k], v), TOLERANCE)

C3_TreeInvariant ==
    \A t \in 1..2 : \A i \in 1..Len(trees[t].nodes) :
        NodeInvariant(trees[t].nodes, i)

\* C4: two inverts in a row on a tree leave every node with the polygon
\* list (vertices and winding) and the children it had before them.
C4_InvertTwiceNoOp ==
    (op.name = "invert" /\ prevop.name = "invert" /\ op.self = prevop.self) =>
        LET new == trees[op.self].nodes
            old == pre2[op.self].nodes
        IN  /\ Len(new) = Len(old)
            /\ \A i \in 1..Len(old) :
                 /\ new[i].polygons = old[i].polygons
                 /\ new[i].front = old[i].front
                 /\ new[i].back = old[i].back

C4_Witness ==
    /\ op.name = "invert" /\ prevop.name = "invert" /\ op.self = prevop.self
    /\ Len(trees[op.self].nodes) >= 6
    /\ \E i \in 1..Len(trees[op.self].nodes) :
         /\ trees[op.self].nodes[i].back # None
         /\ trees[op.self].nodes[i].polygons # <<>>

\* C5: for a tree A freshly built from a closed solid, A.union(copy of A)
\* leaves polygons() covering exactly the surface A.polygons() covered:
\* nothing lost, nothing covered twice.
UnionWithCopy ==
    /\ op.name = "union" /\ nops = 1
    /\ pre[op.other] = pre[op.self]

C5_UnionWithCopySameSurface ==
    UnionWithCopy =>
        SameSurface(polygons(trees[op.self]), polygons(pre[op.self]))

C5_Witness ==
    /\ UnionWithCopy
    /\ pre[op.self] = build(LPrism)
    /\ Len(polygons(trees[op.self])) >= 20

\* C6: after self.clip_to(other), every polygon left in a node of self is a
\* piece of a polygon the node held before and reaches a front leaf of
\* other's tree (it lies outside other); other, and the planes and child
\* links of self, are as before.
C6_ClipToKeepsOutside ==
    op.name = "clip_to" =>
        LET new == trees[op.self].nodes
            old == pre[op.self].nodes
            other == pre[op.other]
        IN  /\ trees[op.other] = other
            /\ Len(new) = Len(old)
            /\ \A i \in 1..Len(old) :
                 /\ new[i].plane = old[i].plane
                 /\ new[i].front = old[i].front
                 /\ new[i].back = old[i].back
                 /\ \A k \in 1..Len(new[i].polygons) :
                      /\ \E j \in 1..Len(old[i].polygons) :
                           FragmentOf(new[i].polygons[k], old[i].polygons[j])
                      /\ ReachesFrontLeaf(other, other.root, new[i].polygons[k])

\* A clip_to that removed polygons, split others and kept some.
C6_Witness ==
    /\ op.name = "clip_to"
    /\ Len(polygons(trees[op.self])) > 0
    /\ \E i \in 1..Len(trees[op.self].nodes) :
         /\ pre[op.self].nodes[i].polygons # <<>>
         /\ trees[op.self].nodes[i].polygons = <<>>
    /\ \E i \in 1..Len(trees[op.self].nodes) :
         Len(trees[op.self].nodes[i].polygons)
             > Len(pre[op.self].nodes[i].polygons)


---------------------------------------------------------------------------
(* Claims about the navmesh *)

\* r is l with from and to swapped and the StepUp edges swapped.
IsReverseOf(r, l) ==
    /\ r.from = l.to
    /\ r.to = l.from
    /\ r.kind.tag = l.kind.tag
    /\ IF l.kind.tag = "StepUp"
       THEN r.kind.edges = <<l.kind.edges[2], l.kind.edges[1]>>
       ELSE r.kind.edges = l.kind.edges

\* id is listed under key in polygon_links.
Listed(key, id) ==
    /\ key \in DOMAIN nav.polygon_links
    /\ \E k \in 1..Len(nav.polygon_links[key]) : nav.polygon_links[key][k] = id

\* C1: after generate_links (and so after Navmesh::new) every link of the
\* slab has its reverse in the slab, and each link that was created (the
\* odd places of the slab) is listed under polygon_links[link.from] while
\* its reverse (the place after it) is listed under polygon_links[link.to].
C1_LinkSymmetry ==
    navop # "none" =>
        /\ \A i \in 1..Len(nav.links) :
              \E j \in 1..Len(nav.links) :
                  IsReverseOf(nav.links[j], nav.links[i])
        /\ Len(nav.links) % 2 = 0
        /\ \A c \in 1..(Len(nav.links) \div 2) :
              /\ IsReverseOf(nav.links[2 * c], nav.links[2 * c - 1])
              /\ Listed(nav.links[2 * c - 1].from, 2 * c - 1)
              /\ Listed(nav.links[2 * c - 1].to, 2 * c)

\* A navmesh after generate_links that has a Walk link and a StepUp link
\* whose two edges differ.
C1_Witness ==
    /\ navop = "generate_links"
    /\ \E i \in 1..Len(nav.links) : nav.links[i].kind.tag = "Walk"
    /\ \E i \in 1..Len(nav.links) :
          /\ nav.links[i].kind.tag = "StepUp"
          /\ nav.links[i].kind.edges[1] # nav.links[i].kind.edges[2]

\* C7: every polygon of the navmesh's slab after Navmesh::new, and every
\* polygon walkable_polygons returned, has normal . Y strictly above
\* settings.max_slope_cosine.
C7_WalkableFilter ==
    navop # "none" =>
        /\ \A i \in 1..Len(nav.polygons) :
              RGt(Dot(normal(nav.polygons[i]), UnitY),
                  nav.settings.max_slope_cosine)
        /\ \A i \in 1..Len(walkable) :
              RGt(Dot(normal(walkable[i][2]), UnitY),
                  nav.settings.max_slope_cosine)

\* walkable_polygons returned the polygons of a navmesh made of a ramp and
\* a box: the box's top and the ramp's slope, whose normal . Y is 4/5, were
\* kept and the walls and the bottoms were not.
C7_Witness ==
    /\ navop = "walkable_polygons"
    /\ Len(walkable) = 4
    /\ nav.settings.max_slope_cosine = <<707, 1000>>
    /\ \E i \in 1..Len(walkable) :
          Dot(normal(walkable[i][2]), UnitY) = <<4, 5>>
    /\ \E i \in 1..Len(walkable) :
          Dot(normal(walkable[i][2]), UnitY) = <<1, 1>>

---------------------------------------------------------------------------
(* Claims about astar *)

\* closest_polygon finds no polygon for the start or for the end point of
\* the call.
Unresolved ==
    \/ closest_polygon(nav, query.start) = None
    \/ closest_polygon(nav, query.end) = None

\* C8: when closest_polygon finds no polygon for the start point or none
\* for the end point, astar returns None, without a panic, before its loop:
\* nothing was pushed, no backtrace stored, no node closed.
C8_NoneWithoutPolygon ==
    (search.pc # "idle" /\ Unresolved) =>
        /\ search.pc = "done"
        /\ search.result = "None"
        /\ search.open = <<>>
        /\ DOMAIN search.backtraces = {}
        /\ search.closed = {}
        /\ search.path = <<>>

\* astar returned on a navmesh with polygons where the start point has a
\* polygon and the end point has none.
C8_Witness ==
    /\ search.pc = "done"
    /\ closest_polygon(nav, query.start) # None
    /\ closest_polygon(nav, query.end) = None
    /\ search.start_node # None

\* The polygons one link away from the polygons S, and S.
Linked(S) ==
    S \cup { nav.links[i].to :
                i \in {j \in 1..Len(nav.links) : nav.links[j].from \in S} }

\* The polygons that can be reached from S by following links.
RECURSIVE ReachableFrom(_)
ReachableFrom(S) ==
    With(Linked(S), LAMBDA n : IF n = S THEN S ELSE ReachableFrom(n))

\* The end polygon of the call can be reached from its start polygon.
EndReachable == search.end_node \in ReachableFrom({search.start_node})

\* astar returned from its loop.
LoopDone ==
    search.pc = "done" /\ search.start_node # None /\ search.end_node # None

\* C9: a call of astar that entered its loop terminates; it returns None,
\* with the open heap empty, exactly when the end polygon cannot be reached
\* from the start polygon by following links, and Some(path) exactly when
\* it can.
C9_TerminatesNoneIffUnreachable ==
    /\ [](LoopDone =>
            /\ search.result = "None" <=> ~EndReachable
            /\ search.result = "Some" <=> EndReachable
            /\ search.result = "None" => search.open = <<>>)
    /\ (search.pc = "loop") ~> (search.pc = "done")

\* astar returned None after it expanded both polygons of the start slab
\* and the heap ran empty: the end polygon is on another slab, out of
\* reach.
C9_Witness ==
    /\ LoopDone
    /\ search.result = "None"
    /\ ~EndReachable
    /\ Cardinality(search.closed) >= 2
    /\ search.open = <<>>

\* C10: a path astar returns is not empty; its first waypoint is the start
\* point in the start polygon with no portal edge, its last waypoint is the
\* point `end` in the end polygon, and every waypoint between them carries
\* the id of the link it crosses.
C10_PathEndpoints ==
    search.result = "Some" =>
        /\ search.path # <<>>
        /\ search.path[1] =
              Waypoint(search.start_node, None, query.start)
        /\ search.path[Len(search.path)].target_polygon = search.end_node
        /\ search.path[Len(search.path)].point = query.end
        /\ \A k \in 2..(Len(search.path) - 1) :
              /\ search.path[k].edge \in 1..Len(nav.links)
              /\ nav.links[search.path[k].edge].to
                    = search.path[k].target_polygon


\* The backtraces from the one of the polygon `current` back to the one of
\* the start polygon, following prev as contruct_backtrace does.
RECURSIVE BacktraceChain(_, _)
BacktraceChain(backtraces, current) ==
    <<backtraces[current]>>
    \o (IF backtraces[current].prev = None THEN <<>>
        ELSE BacktraceChain(backtraces, backtraces[current].prev))

\* C11: along the backtrace chain of a returned path, from the end polygon
\* back to the start polygon, each backtrace has start_cost equal to its
\* predecessor's start_cost plus the distance between their points, which
\* is never less than the predecessor's start_cost; the chain ends at the
\* start backtrace, whose start_cost is 0.
C11_StartCostNonDecreasing ==
    search.result = "Some" =>
        LET chain == BacktraceChain(search.backtraces, search.end_node)
        IN  /\ chain[Len(chain)].node = search.start_node
            /\ chain[Len(chain)].start_cost = RZero
            /\ \A k \in 1..(Len(chain) - 1) :
                  /\ chain[k].prev = chain[k + 1].node
                  /\ chain[k].start_cost =
                        RAdd(chain[k + 1].start_cost,
                             distance(chain[k].point, chain[k + 1].point))
                  /\ RGe(chain[k].start_cost, chain[k + 1].start_cost)

\* A returned path whose chain crosses three links or more, with a cost
\* that grows at two of them at least.
C11_Witness ==
    /\ search.result = "Some"
    /\ LET chain == BacktraceChain(search.backtraces, search.end_node)
       IN  /\ Len(chain) >= 4
           /\ Cardinality({chain[k].start_cost : k \in 1..Len(chain)}) >= 3

\* The path contruct_backtrace left, which shorten was called with, for the
\* call that returned.
Unshortened ==
    contruct_backtrace(query.end, search.end_node, search.backtraces)

\* The legs of the two paths (of one length) that differ: the k with the
\* k-th or the (k + 1)-th point moved.
MovedLegs(before, after) ==
    { k \in 1..(Len(before) - 1) :
        \/ before[k].point # after[k].point
        \/ before[k + 1].point # after[k + 1].point }

\* Bounds of the length of the legs K of a path: the sum of the distances
\* of the legs rounded down to thousandths, and rounded up.
RECURSIVE LengthBelow(_, _)
LengthBelow(path, K) ==
    IF K = {} THEN RZero
    ELSE With(CHOOSE k \in K : TRUE, LAMBDA k :
            RAdd(distance(path[k].point, path[k + 1].point),
                 LengthBelow(path, K \ {k})))

LengthAbove(path, K) ==
    RAdd(LengthBelow(path, K), Rat(Cardinality(K), 1000))

\* C12: the path shorten leaves has the waypoints of the path it was given,
\* with the same polygon and edge ids, the same first and last waypoint and
\* only points in between moved, and its polyline is not longer.  The
\* lengths are compared on the legs that changed, with every distance
\* rounded in favour of the claim: the new legs rounded down are not above
\* the old legs rounded up.
C12_ShortenNotLonger ==
    search.result = "Some" =>
        LET before == Unshortened
            after == search.path
            K == MovedLegs(before, after)
        IN  /\ Len(after) = Len(before)
            /\ after[1] = before[1]
            /\ after[Len(after)] = before[Len(before)]
            /\ \A k \in 1..Len(after) :
                  /\ after[k].target_polygon = before[k].target_polygon
                  /\ after[k].edge = before[k].edge
            /\ ~RGt(LengthBelow(after, K), LengthAbove(before, K))

\* C13: Navmesh::new over an empty set of brushes returns a navmesh with no
\* polygons, no links and an empty polygon_links map, and a generate_links
\* on it leaves it so.
C13_EmptyBrushesEmptyNavmesh ==
    (navop # "none" /\ brushes = <<>>) =>
        /\ nav.polygons = <<>>
        /\ nav.links = <<>>
        /\ DOMAIN nav.polygon_links = {}

\* Navmesh::new returned for an empty set of brushes and the default
\* settings.
C13_Witness ==
    /\ navop = "new"
    /\ brushes = <<>>
    /\ nav.settings = DefaultSettings

\* The point p lies on the line through the points a and b.
OnLine(p, a, b) == Cross(VSub(p, a), VSub(b, a)) = vec3(0, 0, 0)

\* Both ends of the Edge3D lie on the line of one edge of the polygon.
OnEdgeLineOf(edge, face) ==
    \E e \in 1..3 :
        /\ OnLine(edge.p1, edges(face)[e][1], edges(face)[e][2])
        /\ OnLine(edge.p2, edges(face)[e][1], edges(face)[e][2])

\* C14: for every link generate_links stored, source_edge() lies on the
\* line of an edge of the polygon `from` and destination_edge() on the line
\* of an edge of the polygon `to` (a Walk link has one edge for both).
C14_EdgesOnTheirPolygons ==
    navop # "none" =>
        \A i \in 1..Len(nav.links) :
            /\ OnEdgeLineOf(source_edge(nav.links[i]),
                            nav.polygons[nav.links[i].from])
            /\ OnEdgeLineOf(destination_edge(nav.links[i]),
                            nav.polygons[nav.links[i].to])

\* C15: every StepUp link that generate_links created (the odd places of
\* the slab; the place after each holds its reverse) has its destination
\* edge on the taller side: at both ends of the link the destination edge
\* is at least as high as the source edge.
C15_DestinationOnTallerSide ==
    navop # "none" =>
        \A c \in 1..(Len(nav.links) \div 2) :
            LET link == nav.links[2 * c - 1]
            IN  link.kind.tag = "StepUp" =>
                    /\ RGe(VY(destination_edge(link).p1),
                           VY(source_edge(link).p1))
                    /\ RGe(VY(destination_edge(link).p2),
                           VY(source_edge(link).p2))

\* The heights of the two edges of a link differ by at most h at both ends.
WithinStep(link, h) ==
    /\ RLe(RAbs(RSub(VY(destination_edge(link).p1),
                     VY(source_edge(link).p1))), h)
    /\ RLe(RAbs(RSub(VY(destination_edge(link).p2),
                     VY(source_edge(link).p2))), h)

\* The pairs <<b, f>> of polygon edges (places in es) that lie in one
\* vertical plane, b turned against the plane's canonical normal and f
\* along it, run parallel and share a stretch of positive length.
ParallelPairs(es) ==
    LET vp == [k \in 1..Len(es) |-> as_vertical_plane(es[k])]
        cp == [k \in 1..Len(es) |-> canonicalize(vp[k])]
    IN  { p \in (1..Len(es)) \X (1..Len(es)) :
            /\ cp[p[1]].normal # vp[p[1]].normal
            /\ cp[p[2]].normal = vp[p[2]].normal
            /\ cp[p[1]].normal = cp[p[2]].normal
            /\ cp[p[1]].distance = cp[p[2]].distance
            /\ ~is_empty(intersect(coplanar_interval(cp[p[1]], es[p[1]]),
                                   coplanar_interval(cp[p[1]], es[p[2]])))
            /\ Line(coplanar_edge(cp[p[1]], es[p[1]]))[1]
                  = Line(coplanar_edge(cp[p[1]], es[p[2]]))[1] }

\* delta_c of the pair: how far the line of edge f is above that of b.
HeightGap(es, p) ==
    With(canonicalize(as_vertical_plane(es[p[1]])), LAMBDA cp :
        RSub(Line(coplanar_edge(cp, es[p[2]]))[2],
             Line(coplanar_edge(cp, es[p[1]]))[2]))

\* The links between the polygons i and j, in either direction.
LinksBetween(i, j) ==
    { k \in 1..Len(nav.links) :
        {nav.links[k].from, nav.links[k].to} = {i, j} }

\* C16: no link joins edges further apart in height than max_step_height:
\* at both ends of every link the source and the destination edge differ
\* in height by at most max_step_height; and two parallel polygon edges
\* that face each other in one vertical plane are linked only if their
\* height gap delta_c has |delta_c| < max_step_height, by a Walk link
\* exactly when |delta_c| <= TOLERANCE and by a StepUp link otherwise.
C16_StepHeightLimit ==
    navop # "none" =>
        /\ \A k \in 1..Len(nav.links) :
              WithinStep(nav.links[k], nav.settings.max_step_height)
        /\ LET es == PolygonEdges(nav.polygons)
           IN  \A p \in ParallelPairs(es) :
                 LET gap == RAbs(HeightGap(es, p))
                     between == LinksBetween(es[p[1]].polygon,
                                             es[p[2]].polygon)
                 IN  /\ RGe(gap, nav.settings.max_step_height)
                          => between = {}
                     /\ RLt(gap, nav.settings.max_step_height)
                          => /\ between # {}
                             /\ \A k \in between :
                                  nav.links[k].kind.tag = "Walk"
                                      <=> RLe(gap, TOLERANCE)

\* A navmesh of two slabs whose tops are exactly max_step_height apart:
\* each slab has the Walk links of its own two polygons and no link joins
\* the slabs.
C16_Witness ==
    /\ navop = "new"
    /\ Len(brushes) = 2
    /\ Len(nav.polygons) = 4
    /\ Len(nav.links) = 4
    /\ LET es == PolygonEdges(nav.polygons)
       IN  \E p \in ParallelPairs(es) :
              RAbs(HeightGap(es, p)) = nav.settings.max_step_height

\* C17: NavmeshLink::reverse swaps from and to and the two edges of a
\* StepUp and leaves the edge of a Walk, so that for every link l of a
\* navmesh reverse(reverse(l)) = l, source_edge(reverse(l)) =
\* destination_edge(l) and destination_edge(reverse(l)) = source_edge(l).
C17_ReverseInvolution ==
    navop # "none" =>
        \A i \in 1..Len(nav.links) :
            LET l == nav.links[i]
                r == reverse(l)
            IN  /\ r.from = l.to
                /\ r.to = l.from
                /\ r.kind.tag = l.kind.tag
                /\ l.kind.tag = "StepUp" =>
                      r.kind.edges = <<l.kind.edges[2], l.kind.edges[1]>>
                /\ l.kind.tag = "Walk" => r.kind.edges = l.kind.edges
                /\ reverse(r) = l
                /\ source_edge(r) = destination_edge(l)
                /\ destination_edge(r) = source_edge(l)

\* The links of a navmesh of three slabs in steps: Walk links and StepUp
\* links whose two edges differ, between polygons that differ.
C17_Witness ==
    /\ navop = "new"
    /\ Len(brushes) = 3
    /\ \E i \in 1..Len(nav.links) :
          /\ nav.links[i].kind.tag = "Walk"
          /\ nav.links[i].from # nav.links[i].to
    /\ \E i \in 1..Len(nav.links) :
          /\ nav.links[i].kind.tag = "StepUp"
          /\ source_edge(nav.links[i]) # destination_edge(nav.links[i])
          /\ reverse(nav.links[i]) # nav.links[i]

\* The polygons of the navmesh whose projection contains the point.
Containing(point) ==
    { id \in 1..Len(nav.polygons) : contains_point(nav.polygons[id], point) }

\* result is what closest_polygon(point) is to return: None when no
\* polygon contains the point, and otherwise a polygon that contains it and
\* whose plane is, in absolute distance, no further from the point than the
\* plane of any other polygon that contains it.
ClosestByAbsoluteDistance(point, result) ==
    LET C == Containing(point)
        d(id) == RAbs(distance_to_plane(nav.polygons[id], point))
    IN  /\ result = None <=> C = {}
        /\ result # None =>
              /\ result \in C
              /\ \A j \in C : RLe(d(result), d(j))

\* C18: closest_polygon(point) returns None exactly when no polygon of the
\* slab contains the point in projection, and otherwise the polygon with
\* the smallest absolute plane distance among those that contain it; stated
\* of the two calls astar makes, for its start and (when the start has a
\* polygon) for its end.
C18_ClosestPolygon ==
    search.pc # "idle" =>
        /\ ClosestByAbsoluteDistance(query.start, search.start_node)
        /\ search.start_node # None =>
              ClosestByAbsoluteDistance(query.end, search.end_node)

\* The planes of the nodes of the trees the caller holds.
NodePlanes ==
    UNION { { trees[t].nodes[k].plane : k \in 1..Len(trees[t].nodes) } :
            t \in 1..2 }

\* The polygons of the tree that the last operation built or changed.
TreeFaces ==
    IF op.name \in {"init", "invert"} THEN {}
    ELSE With(polygons(trees[op.self]), LAMBDA ps :
             { ps[i] : i \in 1..Len(ps) })

\* A plane and a face it intersects: what build_subtree, append_subtree and
\* clip_polygons call split_face on.
SplitInputs ==
    { pf \in NodePlanes \X TreeFaces :
        classify_face(pf[1], pf[2]) = "Intersect" }

\* All vertices of the face F are, within TOLERANCE, on the side of the
\* plane P its normal points to (sign = 1) or on the other side (sign = -1).
OnSide(P, F, sign) ==
    \A v \in 1..3 :
        RGe(RMul(<<sign, 1>>, distance_to_point(P, F[v])),
            RNeg(TOLERANCE))

\* Twice the area of the face f as seen against the normal n of its plane:
\* positive when f is wound as n, negative when it is wound the other way.
SignedArea2(f, n) == Dot(Cross(VSub(f[1], f[3]), VSub(f[2], f[3])), n)

\* The face f lies within the face F of normal n: its vertices are in the
\* plane of F and inside every edge of F.
WithinFace(f, F, n) ==
    \A v \in 1..3 :
        /\ Dot(VSub(f[v], F[1]), n) = RZero
        /\ \A e \in 1..3 :
               RGe(EdgeSide(edges(F)[e][1], edges(F)[e][2], n, f[v]), RZero)

\* The faces f and g, both wound as n in one plane, share no interior
\* point: an edge of one has all of the other on its outer side.
Apart(f, g, n) ==
    LET outside(a, b) ==
            \E e \in 1..3 : \A v \in 1..3 :
                RLe(EdgeSide(edges(a)[e][1], edges(a)[e][2], n, b[v]), RZero)
    IN  outside(f, g) \/ outside(g, f)

\* What split_face pushes for the face F and the plane P covers F exactly,
\* each side's fragments on their side of P, each fragment wound as F.
SplitCovers(P, F) ==
    With(split_face(P, F), LAMBDA sp :
    With(normal(F), LAMBDA n :
    With(sp.front \o sp.back, LAMBDA all :
        /\ ~sp.panic
        /\ \A i \in 1..Len(all) : WithinFace(all[i], F, n)
        /\ \A i \in 1..Len(all) : \A j \in (i + 1)..Len(all) :
               Apart(all[i], all[j], n)
        /\ SumArea2(all, 1, Len(all)) = area2(F)
        /\ \A i \in 1..Len(sp.front) : OnSide(P, sp.front[i], 1)
        /\ \A i \in 1..Len(sp.back) : OnSide(P, sp.back[i], -1)
        /\ \A i \in 1..Len(all) :
               /\ RGe(Dot(normal(all[i]), n), RZero)
               /\ RGt(SignedArea2(all[i], n), RZero))))

\* C19: for any face and any plane that it intersects, the fragments that
\* split_face pushes to front and back cover exactly the face (every
\* fragment within it, no two overlapping, the areas summing to its area),
\* the front fragments are on the front side of the plane and the back
\* fragments on its back side, and every fragment is wound as the face.
C19_SplitFaceConservation ==
    \A pf \in SplitInputs : SplitCovers(pf[1], pf[2])

\* A face is cut through a vertex, another is cut with one vertex in front
\* and a third with one vertex behind, and a fragment was turned by orient.
C19_Witness ==
    /\ \E pf \in SplitInputs :
           Len(split_face(pf[1], pf[2]).front) = 1
           /\ Len(split_face(pf[1], pf[2]).back) = 1
    /\ \E pf \in SplitInputs : Len(split_face(pf[1], pf[2]).back) = 2
    /\ \E pf \in SplitInputs : Len(split_face(pf[1], pf[2]).front) = 2

\* The span has no length: its min is not below its max.
NoLength(s) == ~RLt(s.min, s.max)

\* What two spans have in common: from the greater min to the smaller max.
Common(a, b) ==
    Span(IF RLt(a.min, b.min) THEN b.min ELSE a.min,
         IF RLt(b.max, a.max) THEN b.max ELSE a.max)

\* C20: is_empty holds exactly when min >= max; a.intersect(b) is empty
\* when a or b is empty or they have no interval of positive length in
\* common, and is otherwise the span from the greater min to the smaller
\* max; a.intersect(b) and b.intersect(a) agree in emptiness and bounds.
C20_SpanIntersect ==
    spans.called =>
        /\ spans.a_empty <=> NoLength(spans.a)
        /\ spans.b_empty <=> NoLength(spans.b)
        /\ IF NoLength(spans.a) \/ NoLength(spans.b)
               \/ NoLength(Common(spans.a, spans.b))
           THEN NoLength(spans.ab) /\ is_empty(spans.ab)
           ELSE spans.ab = Common(spans.a, spans.b)
        /\ NoLength(spans.ab) <=> NoLength(spans.ba)
        /\ spans.ab.min = spans.ba.min
        /\ spans.ab.max = spans.ba.max

\* Two spans with length were intersected, neither within the other, and
\* what came back has length.
C20_Witness ==
    /\ spans.called
    /\ ~spans.a_empty /\ ~spans.b_empty
    /\ ~NoLength(spans.ab)
    /\ spans.ab # spans.a /\ spans.ab # spans.b

\* The cross product of the XZ parts of two vectors.
CrossXZ(a, b) == RSub(RMul(VX(a), VZ(b)), RMul(VZ(a), VX(b)))

\* The point p lies on the segment from edge.p1 to edge.p2.
OnSegment(p, edge) ==
    LET e == VSub(edge.p2, edge.p1)
        along == Dot(VSub(p, edge.p1), e)
    IN  /\ Cross(VSub(p, edge.p1), e) = vec3(0, 0, 0)
        /\ RGe(along, RZero)
        /\ RLe(along, Dot(e, e))

\* Seen from above, the ray runs along the edge's line and never crosses
\* the vertical plane through the edge.
RayParallel(edge, direction) ==
    CrossXZ(direction, VSub(edge.p2, edge.p1)) = RZero

\* The line of the ray crosses the vertical plane through the edge behind
\* the origin of the ray.
RayBehind(edge, origin, direction) ==
    LET e == VSub(edge.p2, edge.p1)
    IN  /\ ~RayParallel(edge, direction)
        /\ RLt(RDiv(CrossXZ(VSub(edge.p1, origin), e), CrossXZ(direction, e)),
               RZero)

\* C21: a point that intersect_ray_clipped returns lies on the segment from
\* p1 to p2, and it returns None when the ray is parallel to the vertical
\* plane through the edge or crosses that plane behind its origin.
C21_RayHitOnSegment ==
    ray.called =>
        /\ ray.result # NoPoint => OnSegment(ray.result, ray.edge)
        /\ RayParallel(ray.edge, ray.direction) => ray.result = NoPoint
        /\ RayBehind(ray.edge, ray.origin, ray.direction) =>
               ray.result = NoPoint

\* A ray crossed the line of an edge beyond its end p2 and the end came
\* back.
C21_Witness ==
    /\ ray.called
    /\ ray.edge.p1 # ray.edge.p2
    /\ ray.result = ray.edge.p2
    /\ intersect_ray_unclamped(ray.edge, ray.origin, ray.direction)
           # ray.edge.p2

\* The distance of vertex i of the last face from the last plane.
CutDistance(i) == RSub(Dot(cut.face[i], cut.plane.normal), cut.plane.distance)

\* All three vertices of the last face are within TOLERANCE of the plane.
AllWithin == \A i \in 1..3 : RLe(RAbs(CutDistance(i)), TOLERANCE)

\* None of them is further than TOLERANCE behind the plane.
NoneBehind == \A i \in 1..3 : RGe(CutDistance(i), RNeg(TOLERANCE))

\* None of them is further than TOLERANCE in front of the plane.
NoneInFront == \A i \in 1..3 : RLe(CutDistance(i), TOLERANCE)

\* C22: classify_face returns CoplanarFront or CoplanarBack exactly when
\* all three vertex distances are within TOLERANCE, CoplanarFront when the
\* face's normal has a positive dot product with the plane's and
\* CoplanarBack otherwise; otherwise Front when all distances are at least
\* -TOLERANCE, otherwise Back when all are at most TOLERANCE, otherwise
\* Intersect, which is so returned only when a vertex is further than
\* TOLERANCE behind the plane and another further than TOLERANCE in front.
C22_ClassifyFace ==
    cut.op # "none" =>
        /\ cut.class \in {"CoplanarFront", "CoplanarBack"} <=> AllWithin
        /\ cut.class = "CoplanarFront" =>
               RGt(Dot(normal(cut.face), cut.plane.normal), RZero)
        /\ cut.class = "CoplanarBack" =>
               RLe(Dot(normal(cut.face), cut.plane.normal), RZero)
        /\ cut.class = "Front" <=> ~AllWithin /\ NoneBehind
        /\ cut.class = "Back" <=> ~AllWithin /\ ~NoneBehind /\ NoneInFront
        /\ cut.class = "Intersect" <=>
               ~AllWithin /\ ~NoneBehind /\ ~NoneInFront
        /\ cut.class = "Intersect" =>
               /\ \E i \in 1..3 : RLt(CutDistance(i), RNeg(TOLERANCE))
               /\ \E i \in 1..3 : RGt(CutDistance(i), TOLERANCE)

\* A face with all its vertices exactly TOLERANCE from the plane was
\* classified.
C22_Witness ==
    /\ cut.op = "classify"
    /\ \A i \in 1..3 : RAbs(CutDistance(i)) = TOLERANCE
    /\ cut.class = "CoplanarFront"

\* How many vertices of the last face the vertex loop of split_face counts
\* as front, as back and as coplanar with the last plane.
CutCounts ==
    LET pd == VertexDistances(cut.plane, cut.face)
        front == { i \in 1..3 : RGe(pd[i][2], TOLERANCE) }
        back == { i \in 1..3 : RLe(pd[i][2], RNeg(TOLERANCE)) }
    IN  [front |-> Cardinality(front), back |-> Cardinality(back),
         coplanar |-> 3 - Cardinality(front \cup back)]

\* C28: for a face and a plane that classify_face calls Intersect, the
\* vertex loop of split_face counts a front and a back vertex, at most one
\* coplanar vertex and with it exactly one front and one back vertex, so
\* that no assertion of split_face fails; and split_face pushes at least
\* one fragment to the front output and at least one to the back output,
\* two or three in all.
C28_SplitOfIntersect ==
    cut.class = "Intersect" =>
        /\ CutCounts.front >= 1 /\ CutCounts.back >= 1
        /\ CutCounts.coplanar <= 1
        /\ CutCounts.coplanar = 1 =>
               CutCounts.front = 1 /\ CutCounts.back = 1
        /\ cut.op = "split" =>
               /\ ~cut.panic
               /\ Len(cut.front) >= 1
               /\ Len(cut.back) >= 1
               /\ Len(cut.front) + Len(cut.back) \in {2, 3}

\* A face with one vertex on the plane, one in front and one behind was
\* split in two.
C28_Witness ==
    /\ cut.op = "split"
    /\ cut.class = "Intersect"
    /\ CutCounts.coplanar = 1
    /\ Len(cut.front) = 1 /\ Len(cut.back) = 1

\* Where a face ends when it is passed down a tree by its class at each
\* node's plane, CoplanarFront going with Front and CoplanarBack with Back:
\* "kept" on the front side of a node without a front child, "discarded" on
\* the back side of a node without a back child, "split" at a plane that
\* cuts it.
RECURSIVE Fate(_, _, _)
Fate(tree, index, face) ==
    LET node == tree.nodes[index]
        c == classify_face(node.plane, face)
    IN  CASE c \in {"Front", "CoplanarFront"} ->
               IF node.front = None THEN "kept"
               ELSE Fate(tree, node.front, face)
          [] c \in {"Back", "CoplanarBack"} ->
               IF node.back = None THEN "discarded"
               ELSE Fate(tree, node.back, face)
          [] OTHER -> "split"

\* The face is among the faces of the list.
Among(face, list) == \E i \in 1..Len(list) : list[i] = face

\* The face went to the back list at the root of the last tree clipped to.
RootBack(face) ==
    classify_face(clip.tree.nodes[clip.tree.root].plane, face)
        \in {"Back", "CoplanarBack"}

\* C23: clip_polygons keeps a polygon or fragment that ends on the front
\* side of a node without a front child and discards one that ends on the
\* back side of a node without a back child, CoplanarFront polygons going
\* with the front list and CoplanarBack polygons with the back list; what
\* it returns is the front results followed by the back results.
C23_ClipPolygons ==
    clip.called =>
        /\ \A i \in 1..Len(clip.input) :
              LET fate == Fate(clip.tree, clip.tree.root, clip.input[i])
              IN  /\ fate = "kept" => Among(clip.input[i], clip.output)
                  /\ fate = "discarded" => ~Among(clip.input[i], clip.output)
        /\ \A k \in 1..Len(clip.output) :
              /\ Fate(clip.tree, clip.tree.root, clip.output[k]) = "kept"
              /\ \E i \in 1..Len(clip.input) :
                    FragmentOf(clip.output[k], clip.input[i])
        /\ \A j \in 1..Len(clip.output) : \A k \in (j + 1)..Len(clip.output) :
              RootBack(clip.output[j]) => RootBack(clip.output[k])

\* Polygons were kept whole, discarded whole and cut, a polygon in the
\* plane of the root was kept and another discarded, and front results
\* and back results both came back.
C23_Witness ==
    /\ clip.called
    /\ \A fate \in {"kept", "discarded", "split"} :
          \E i \in 1..Len(clip.input) :
              Fate(clip.tree, clip.tree.root, clip.input[i]) = fate
    /\ \E k \in 1..Len(clip.output) : RootBack(clip.output[k])
    /\ \E k \in 1..Len(clip.output) : ~RootBack(clip.output[k])
    /\ \E i \in 1..Len(clip.input) :
          classify_face(clip.tree.nodes[clip.tree.root].plane, clip.input[i])
              \in {"CoplanarFront", "CoplanarBack"}

\* The child backtrace that the expansion of current makes for the link
\* with the given index.
ChildOf(current, portal) ==
    LET link == nav.links[portal]
        edge == destination_edge(link)
        hit == intersect_ray_clipped(edge, current.point,
                                     VSub(query.end, current.point))
        p == IF hit # NoPoint THEN hit
             ELSE VScale(VAdd(edge.p1, edge.p2), <<1, 2>>)
    IN  BacktraceNew(portal, link, p, current, Heuristic(query.h, p, query.end))

\* The links of the polygon of current that its expansion does not skip.
OpenLinks(current) ==
    { l \in { LinksOf(nav, current.node)[k] :
                k \in 1..Len(LinksOf(nav, current.node)) } :
        /\ nav.links[l].to # current.node
        /\ nav.links[l].to \notin search.closed }

\* The backtrace recorded for polygon n when the k-th of the pushed
\* backtraces was made: the last one pushed for n before it, or else the
\* one of the map before the expansion; <<>> for none.
RecordedBefore(pushed, k, n) ==
    LET earlier == { j \in 1..(k - 1) : pushed[j].node = n }
    IN  IF earlier # {}
        THEN pushed[CHOOSE j \in earlier : \A e \in earlier : e <= j]
        ELSE IF n \in DOMAIN search.backtraces THEN search.backtraces[n]
        ELSE <<>>

\* The iteration that pops the i-th of open, from search to search'.
ExpansionAsClaimed(i) ==
    LET current == search.open[i]
        rest == SubSeq(search.open, 1, i - 1)
                    \o SubSeq(search.open, i + 1, Len(search.open))
        pushed == SubSeq(search'.open, Len(rest) + 1, Len(search'.open))
        children == { ChildOf(current, l) : l \in OpenLinks(current) }
    IN  IF current.node \in search.closed
        THEN search' = [search EXCEPT !.open = rest]
        ELSE IF current.node = search.end_node \/ search'.pc = "done"
        THEN search'.closed = search.closed
        ELSE
        /\ SubSeq(search'.open, 1, Len(rest)) = rest
        /\ search'.closed = search.closed \cup {current.node}
        /\ \A k \in 1..Len(pushed) :
              /\ pushed[k] \in children
              /\ RecordedBefore(pushed, k, pushed[k].node) # <<>> =>
                    RLt(pushed[k].total_cost,
                        RecordedBefore(pushed, k, pushed[k].node).total_cost)
        /\ DOMAIN search'.backtraces =
              DOMAIN search.backtraces
                  \cup { pushed[k].node : k \in 1..Len(pushed) }
        /\ \A n \in DOMAIN search'.backtraces :
              search'.backtraces[n] =
                  RecordedBefore(pushed, Len(pushed) + 1, n)
        /\ \A c \in children :
              \/ \E k \in 1..Len(pushed) : pushed[k] = c
              \/ /\ c.node \in DOMAIN search'.backtraces
                 /\ RLe(search'.backtraces[c.node].total_cost, c.total_cost)

\* C24: in an expansion of astar, a child backtrace is stored in the map
\* and pushed on the heap exactly when its polygon has no recorded
\* backtrace or its total_cost is strictly below the recorded one, and
\* otherwise map and heap stay as they are; links to closed polygons make
\* no child; and a polygon is closed once only: a popped backtrace of a
\* closed polygon changes nothing but the heap it is taken from.
C24_StoreAndPushIffBetter ==
    [][AstarIteration =>
          \E i \in 1..Len(search.open) :
              /\ CanPop(search.open, i)
              /\ search' = astar_iteration(nav, query, search, i)
              /\ ExpansionAsClaimed(i)]_vars

\* The heap holds two backtraces of one polygon, the later one better: a
\* recorded backtrace was replaced; and a polygon was closed.
C24_Witness ==
    /\ search.pc = "loop"
    /\ search.closed # {}
    /\ \E i \in 1..Len(search.open) : \E j \in (i + 1)..Len(search.open) :
          /\ search.open[i].node = search.open[j].node
          /\ RLt(search.open[j].total_cost, search.open[i].total_cost)

\* The path that contruct_backtrace hands to shorten in the call that
\* ended at the end polygon.
RawPath == contruct_backtrace(query.end, search.end_node, search.backtraces)

\* The path after k passes over it, each pass run whatever the one before
\* it did.
RECURSIVE AfterPasses(_, _)
AfterPasses(path, k) ==
    IF k = 0 THEN path
    ELSE ShortenPass(nav, AfterPasses(path, k - 1), 1, 0)[1]

\* The k-th pass over the path replaced the point of a waypoint.
Replaced(path, k) ==
    AfterPasses(path, k) # AfterPasses(path, k - 1)

\* C25: shorten makes at most 100 passes over the path and stops after the
\* first pass that replaced no point of a waypoint: every pass before its
\* last one replaced a point, and its last pass replaced none unless it is
\* the 100th.
C25_ShortenPasses ==
    (search.pc = "done" /\ search.result = "Some") =>
        /\ search.passes \in 1..MaxShortenPasses
        /\ \A k \in 1..(search.passes - 1) : Replaced(RawPath, k)
        /\ search.passes < MaxShortenPasses =>
              ~Replaced(RawPath, search.passes)
        /\ search.path = AfterPasses(RawPath, search.passes)

\* A call whose shorten replaced a point in its first pass and stopped
\* after a later pass that replaced none.
C25_Witness ==
    /\ search.pc = "done"
    /\ search.result = "Some"
    /\ search.passes >= 2
    /\ search.path # RawPath
    /\ ~Replaced(RawPath, search.passes)

\* The first component of n that is not zero is positive.
FirstNonZeroPositive(n) ==
    \/ VX(n)[1] > 0
    \/ VX(n)[1] = 0 /\ VY(n)[1] > 0
    \/ VX(n)[1] = 0 /\ VY(n)[1] = 0 /\ VZ(n)[1] > 0

\* The plane with the opposite normal and distance: the same set of points.
Opposite(vp) == VerticalPlane(VNeg(vp.normal), RNeg(vp.distance))

\* C26: an edge and the oppositely directed edge on the same line get the
\* same canonical plane, whose normal has its first non-zero component
\* positive, and the same bucket key, and are put in opposite lists of
\* that bucket; a plane and the plane with normal and distance negated
\* canonicalize to the same plane; canonicalize applied to its result
\* changes nothing.
C26_CanonicalBuckets ==
    /\ bucket.called = "assign" =>
          LET e == bucket.edges[1]
              r == bucket.edges[2]
              ce == canonicalize(as_vertical_plane(e))
              cr == canonicalize(as_vertical_plane(r))
          IN  /\ ce = cr
              /\ FirstNonZeroPositive(ce.normal)
              /\ canonicalize(ce) = ce
              /\ Cardinality(DOMAIN bucket.edgeplanes) = 1
              /\ \A key \in DOMAIN bucket.edgeplanes :
                    LET b == bucket.edgeplanes[key]
                    IN  /\ b.plane = ce
                        /\ Len(b.front) = 1
                        /\ Len(b.back) = 1
                        /\ {b.front[1], b.back[1]} = {e, r}
    /\ bucket.called = "canonicalize" =>
          /\ FirstNonZeroPositive(bucket.canonical.normal)
          /\ canonicalize(Opposite(bucket.plane)) = bucket.canonical
          /\ canonicalize(bucket.canonical) = bucket.canonical

\* An edge along a diagonal, rising, whose own normal is the opposite of
\* the canonical one: it is in the back list and the reversed edge, given
\* second, in the front list.
C26_Witness ==
    /\ bucket.called = "assign"
    /\ bucket.edges[1].p1[2] # bucket.edges[1].p2[2]
    /\ VX(as_vertical_plane(bucket.edges[1]).normal)[1] < 0
    /\ VZ(as_vertical_plane(bucket.edges[1]).normal)[1] # 0
    /\ \E key \in DOMAIN bucket.edgeplanes :
          /\ bucket.edgeplanes[key].back = <<bucket.edges[1]>>
          /\ bucket.edgeplanes[key].front = <<bucket.edges[2]>>

\* C27: in every navmesh each id listed in polygon_links[p] is the id of a
\* link of the slab whose from is p, and from and to of every link are ids
\* of polygons of the polygon slab; and no call of astar fails
\* `assert_eq!(link.from(), current.node)`.
C27_LinkIdsValid ==
    /\ navop # "none" =>
          /\ \A p \in DOMAIN nav.polygon_links :
                \A k \in 1..Len(nav.polygon_links[p]) :
                    /\ nav.polygon_links[p][k] \in 1..Len(nav.links)
                    /\ nav.links[nav.polygon_links[p][k]].from = p
          /\ \A i \in 1..Len(nav.links) :
                /\ nav.links[i].from \in 1..Len(nav.polygons)
                /\ nav.links[i].to \in 1..Len(nav.polygons)
    /\ search.result # "panic"

\* An expansion in a navmesh with links has passed the assertion for every
\* link of a polygon with at least two links listed.
C27_Witness ==
    /\ search.pc = "loop"
    /\ \E p \in search.closed :
          /\ p \in DOMAIN nav.polygon_links
          /\ Len(nav.polygon_links[p]) >= 2
          /\ \E k \in 1..Len(nav.polygon_links[p]) :
                nav.links[nav.polygon_links[p][k]].to \in DOMAIN search.backtraces

\* C29: generate_links called on a navmesh, whose links an earlier call
\* made from the same polygons, leaves the same links under the same ids,
\* none of them twice, and the same polygon_links lists, and leaves the
\* polygon slab and the settings as they are.
C29_GenerateLinksIdempotent ==
    [][GenerateLinks =>
          /\ nav'.links = nav.links
          /\ nav'.polygon_links = nav.polygon_links
          /\ nav'.polygons = nav.polygons
          /\ nav'.settings = nav.settings
          /\ \A i \in 1..Len(nav'.links) : \A j \in (i + 1)..Len(nav'.links) :
                nav'.links[i] # nav'.links[j]]_vars

\* generate_links was called again on a navmesh with Walk and StepUp links
\* and a polygon with several links.
C29_Witness ==
    /\ navop = "generate_links"
    /\ \E i \in 1..Len(nav.links) : nav.links[i].kind.tag = "Walk"
    /\ \E i \in 1..Len(nav.links) : nav.links[i].kind.tag = "StepUp"
    /\ \E p \in DOMAIN nav.polygon_links : Len(nav.polygon_links[p]) >= 3

\* The polygons that following prev from the backtrace of `current` comes
\* to, in order; the walk ends at a backtrace without prev and at a polygon
\* it comes to a second time, which is then the last of the list.
RECURSIVE PrevWalk(_, _, _)
PrevWalk(backtraces, current, walked) ==
    IF \/ \E k \in 1..Len(walked) : walked[k] = current
       \/ backtraces[current].prev = None
    THEN Append(walked, current)
    ELSE PrevWalk(backtraces, backtraces[current].prev,
                  Append(walked, current))

\* The walk from the end polygon of the call.
EndWalk == PrevWalk(search.backtraces, search.end_node, <<>>)

\* C30: when astar has reached the end polygon, following prev from the
\* end polygon's backtrace comes to no polygon twice and ends at the
\* backtrace of the start polygon, the only one without prev; and the
\* backtrace an iteration pops and expands is the one the map records for
\* its polygon.
C30_BacktraceChain ==
    /\ [](search.result = "Some" =>
            /\ \A i \in 1..Len(EndWalk) : \A j \in (i + 1)..Len(EndWalk) :
                  EndWalk[i] # EndWalk[j]
            /\ EndWalk[Len(EndWalk)] = search.start_node
            /\ \A n \in DOMAIN search.backtraces :
                  search.backtraces[n].prev = None <=> n = search.start_node)
    /\ [][AstarIteration =>
             \E i \in 1..Len(search.open) :
                 /\ CanPop(search.open, i)
                 /\ search' = astar_iteration(nav, query, search, i)
                 /\ search.open[i].node \notin search.closed =>
                       search.backtraces[search.open[i].node]
                           = search.open[i]]_vars

\* astar returned a path over three or more polygons in a call that
\* replaced a recorded backtrace, whose stale copy is still on the heap.
C30_Witness ==
    /\ search.result = "Some"
    /\ Len(EndWalk) >= 3
    /\ \E i \in 1..Len(search.open) :
          /\ search.open[i].node \in DOMAIN search.backtraces
          /\ search.backtraces[search.open[i].node] # search.open[i]
=============================================================================
